---- MODULE Spec2Model ----
(***************************************************************************)
(* Patch-plan lifecycle of the agentic software patcher: the approval      *)
(* store (HumanApprovalAgent), the audit log (AuditLoggerAgent), the HTTP  *)
(* handlers of approval_router / execution_router / api_server, the       *)
(* background task run_patches, PatchExecutor and the deployment phase of  *)
(* PatchPlanGenerator.generate_patch_plan.                                 *)
(*                                                                         *)
(* The specifications share the state:                                     *)
(*   Spec     - the HTTP service: every `async def` handler has no await   *)
(*              in its body, so it runs to completion on the event loop    *)
(*              (one action per handler); run_patches is a plain `def`     *)
(*              background task, run after the response, step by step.     *)
(*   SpecGen  - PatchPlanGenerator.generate_patch_plan, step by step,      *)
(*              next to the decision handler working on the same store.    *)
(*   SpecConc - two callers of the decision operation whose file reads and *)
(*              writes interleave (separate workers / processes sharing    *)
(*              backend/data/approvals; the code takes no lock).           *)
(*   SpecTrail, SpecSink - the calls on the audit log one after the other: *)
(*              appends at any clock reading and queries (SpecTrail),      *)
(*              appends whose file write may fail (SpecSink).              *)
(*   SpecWriters - appends whose steps inside _save_to_file interleave.    *)
(*   SpecDecide - the approval router when the audit write raises.         *)
(*   SpecScore - RiskAssessorAgent.score_patch over the severities and     *)
(*              modifiers it can draw, with and without the reasoner.      *)
(*   SpecSchedule - PatchSchedulerAgent and AuditorAgent on inventories    *)
(*              and assessment lists: scheduling, compliance tagging.      *)
(*   SpecRead - the read requests of the approval store and the audit log  *)
(*              between creations and decisions.                           *)
(*   SpecWindow - PatchSchedulerAgent._calculate_schedule_time over the    *)
(*              scores, base times and random draws.                       *)
(*   SpecExport - appends, report exports and queries on the audit log.    *)
(***************************************************************************)
EXTENDS Integers, Sequences, FiniteSets, TLC

\* ------------------------------------------------------------- bounds
MaxApprovals == 2
MaxRequests == 4
MaxTasks == 2
MaxPreChecks == 2

\* ------------------------------------------------------------- values
Absent == "<absent>"

\* schemas/approval_schemas.py ApprovalStatus: the values a decision may take
ApprovalStatus == {"pending", "approved", "rejected", "changes_requested"}

Approvers == {"alice"}
CommentTexts == {"", "lgtm"}
Requesters == {"system"}

\* uuid4() values are modelled as fresh positive integers
ApprovalIds == 1 .. MaxApprovals
\* an approval_id no approval file exists for
UnknownId == MaxApprovals + 1

\* a pre-check of a plan: {command, expect}; strings that are searched are
\* sequences of characters
OK == <<"o", "k">>
\* (the i-th pre-check of a list runs its own command; an empty expect stands
\* for a missing or empty "expect")
CheckCommand(i) == <<"check", i>>
PreCheckLists == UNION {{[i \in 1 .. n |-> [command |-> CheckCommand(i), expect |-> e[i]]] : e \in [1 .. n -> {OK, <<>>}]} : n \in 0 .. MaxPreChecks}

\* plans posted to the service: a JSON object with or without "audit_id"
PostedPlans == {[audit_id |-> "p1", pre_checks |-> <<>>], [audit_id |-> Absent, pre_checks |-> <<>>]}

\* PatchExecutor.execute: cmds = ["sudo apt update"]
cmds == <<"sudo apt update">>

\* outcomes of one command on the execution backend
CmdOutcomes == {"exit0", "nonzero", "raises"}

\* the methods class AuditLoggerAgent defines
AuditLoggerMethods == {"log_approval_decision", "log_patch_plan_generation", "log_user_action", "get_audit_trail", "get_decision_statistics", "_save_to_file", "_save_to_mongodb", "export_audit_report"}

VARIABLES approvals, audit_log, mongo_up, decision_collection, audit_collection, uuid_seq, tasks, executions, backend_calls, reports, resp, nreq, gen, callers, aud, pipe

vars == <<approvals, audit_log, mongo_up, decision_collection, audit_collection, uuid_seq, tasks, executions, backend_calls, reports, resp, nreq, gen, callers, aud, pipe>>

\* ------------------------------------------------------------- clock
\* datetime.now(): the day and the microsecond within it (one digit each)
Times == {[day |-> 1, micro |-> 0], [day |-> 1, micro |-> 5], [day |-> 2, micro |-> 0]}
Today == [day |-> 1, micro |-> 0]

\* datetime.isoformat(), as code points: the date, "T", the time of day, and
\* "." with the microseconds only when they are not zero
isoformat(t) == <<48 + t.day, 84, 48>> \o (IF t.micro = 0 THEN <<>> ELSE <<46, 48 + t.micro>>)

\* datetime.fromisoformat: the instant a timestamp string denotes
fromisoformat(s) == [day |-> s[1] - 48, micro |-> IF Len(s) > 3 THEN s[5] - 48 ELSE 0]

\* t1 is not later than t2
NotLater(t1, t2) == t1.day < t2.day \/ (t1.day = t2.day /\ t1.micro <= t2.micro)

\* Python's a < b on str: code point by code point, a proper prefix is smaller
StrLess(a, b) ==
  \/ Len(a) < Len(b) /\ \A j \in 1 .. Len(a) : a[j] = b[j]
  \/ \E i \in 1 .. Len(a) : i <= Len(b) /\ a[i] < b[i] /\ \A j \in 1 .. (i - 1) : a[j] = b[j]

\* ------------------------------------------------------------- helpers
Last(s) == s[Len(s)]

\* dict.get(key, default)
Get(v, default) == IF v = Absent THEN default ELSE v

\* `sub in s` for Python strings
Contains(sub, s) == \E i \in 0 .. (Len(s) - Len(sub)) : \A j \in 1 .. Len(sub) : s[i + j] = sub[j]

\* ------------------------------------------------------------- HumanApprovalAgent
\* create_approval_request: the record written to approval_<id>.json
NewApprovalRequest(approval_id, patch_plan, requester) ==
  [approval_id |-> approval_id,
   patch_plan_id |-> Get(patch_plan.audit_id, "unknown"),
   created_at |-> isoformat(Today),
   requester |-> requester,
   status |-> "pending",
   patch_plan |-> patch_plan,
   approval_metadata |-> [total_patches |-> 0, high_risk_count |-> 0],  \* the plans posted here list no scheduled_patches
   comments |-> <<>>,
   decision_history |-> <<>>]

\* get_approval_request: None when the file does not exist
Exists(approval_id) == approval_id \in DOMAIN approvals

\* update_approval_status with the history written over instead of appended to
update_approval_status_overwrites(approval, status, approver, comments) ==
  LET decision == [approver |-> approver, previous_status |-> approval.status, new_status |-> status, comments |-> comments]
      comment_entry == [author |-> approver, comment |-> comments, action |-> status]
  IN [approval EXCEPT !.decision_history = <<decision>>,
                      !.status = status,
                      !.comments = IF comments # "" THEN Append(@, comment_entry) ELSE @]

\* update_approval_status appending a comment record whatever the comment
update_approval_status_always_comments(approval, status, approver, comments) ==
  LET decision == [approver |-> approver, previous_status |-> approval.status, new_status |-> status, comments |-> comments]
      comment_entry == [author |-> approver, comment |-> comments, action |-> status]
  IN [approval EXCEPT !.decision_history = Append(@, decision),
                      !.status = status,
                      !.comments = Append(@, comment_entry)]

\* update_approval_status leaving the status field as it was
update_approval_status_keeps_status(approval, status, approver, comments) ==
  LET decision == [approver |-> approver, previous_status |-> approval.status, new_status |-> status, comments |-> comments]
      comment_entry == [author |-> approver, comment |-> comments, action |-> status]
  IN [approval EXCEPT !.decision_history = Append(@, decision),
                      !.comments = IF comments # "" THEN Append(@, comment_entry) ELSE @]

\* update_approval_status recording the approver as the requester
update_approval_status_takes_over(approval, status, approver, comments) ==
  LET decision == [approver |-> approver, previous_status |-> approval.status, new_status |-> status, comments |-> comments]
      comment_entry == [author |-> approver, comment |-> comments, action |-> status]
  IN [approval EXCEPT !.decision_history = Append(@, decision),
                      !.status = status,
                      !.requester = approver,
                      !.comments = IF comments # "" THEN Append(@, comment_entry) ELSE @]

\* update_approval_status, from the loaded record to the record saved
update_approval_status(approval, status, approver, comments) ==
  LET decision == [approver |-> approver, previous_status |-> approval.status, new_status |-> status, comments |-> comments]
      comment_entry == [author |-> approver, comment |-> comments, action |-> status]
  IN [approval EXCEPT !.decision_history = Append(@, decision),
                      !.status = status,
                      !.comments = IF comments # "" THEN Append(@, comment_entry) ELSE @]

\* ------------------------------------------------------------- AuditLoggerAgent
\* the entries carry the "timestamp" of a clock that stands at Today where no
\* reading is given, and the day of the file they are saved in
DecisionEntry(log_id, approval_id, decision, approver, patch_plan_id, comments) ==
  [log_id |-> log_id, audit_id |-> Absent, event_type |-> "approval_decision", approval_id |-> approval_id, patch_plan_id |-> patch_plan_id, resource_id |-> Absent, decision |-> decision, approver |-> approver, action |-> Absent, comments |-> comments, timestamp |-> isoformat(Today), file |-> Today.day]

GenerationEntry(log_id, patch_plan) ==
  [log_id |-> log_id, audit_id |-> Absent, event_type |-> "patch_plan_generated", approval_id |-> Absent, patch_plan_id |-> Get(patch_plan.audit_id, "unknown"), resource_id |-> Absent, decision |-> Absent, approver |-> Absent, action |-> Absent, comments |-> Absent, timestamp |-> isoformat(Today), file |-> Today.day]

UserActionEntry(log_id, user_id, action, resource_id) ==
  [log_id |-> log_id, audit_id |-> Absent, event_type |-> "user_action", approval_id |-> Absent, patch_plan_id |-> Absent, resource_id |-> resource_id, decision |-> Absent, approver |-> user_id, action |-> action, comments |-> Absent, timestamp |-> isoformat(Today), file |-> Today.day]

\* _save_to_file: load the day's list, append, write back
save_to_file(log, log_entry) == Append(log, log_entry)

\* _save_to_mongodb: insert_one, an exception is printed and swallowed.
\* mongo_up: whether the server at mongodb://localhost:27017 answers; the
\* clients are built lazily, so construction succeeds either way
save_to_mongodb(coll, log_entry) == IF mongo_up THEN Append(coll, log_entry) ELSE coll

NoResp == [op |-> "none", code |-> 0, detail |-> "", approval_id |-> UnknownId, decision |-> Absent, results |-> <<>>]

Response(op, code, detail, approval_id, decision, results) ==
  [op |-> op, code |-> code, detail |-> detail, approval_id |-> approval_id, decision |-> decision, results |-> results]

NoGen == [pc |-> "off", deploy_mode |-> "dry-run", create |-> FALSE, plan |-> [audit_id |-> Absent, pre_checks |-> <<>>], approval_id |-> UnknownId, idx |-> 1, check_results |-> <<>>, cmd_idx |-> 1, steps |-> <<>>, report |-> FALSE]

\* the planning pipeline (risk assessment, scheduling, compliance tagging):
\* its inputs and what each stage returned
NoPipe == [pc |-> "off", cve |-> [id |-> 0, severity |-> ""], use_llm |-> FALSE, llm |-> "not called", systems |-> <<>>, patch_risks |-> <<>>, assessment |-> <<>>, scheduled_patches |-> <<>>, tagged_patches |-> <<>>, base_time |-> [day |-> 1, hour |-> 0], scheduled_time |-> <<>>]

\* what the last call on the audit log gave back: "returned" with a log_id or
\* a trail, or "raised"; swallowed names the calls whose exception was caught
\* and printed inside it
NoResult == [op |-> "none", status |-> "none", log_id |-> 0, resource_id |-> Absent, primary |-> "none", swallowed |-> {}, trail |-> <<>>]

\* the audit directory beside audit_log: the daily files that do not parse,
\* the calls made, the entries whose append returned, the last result, the
\* writers inside _save_to_file, and the report files export_audit_report
\* has written (audit_report_<resource_id>_<date>.json)
NoAud == [corrupt |-> {}, nops |-> 0, appended |-> <<>>, result |-> NoResult, writers |-> <<>>, report_files |-> {}]

Init ==
  /\ approvals = <<>>
  /\ audit_log = <<>>
  /\ mongo_up \in BOOLEAN
  /\ decision_collection = <<>>
  /\ audit_collection = <<>>
  /\ uuid_seq = 0
  /\ tasks = <<>>
  /\ executions = <<>>
  /\ backend_calls = <<>>
  /\ reports = {}
  /\ resp = NoResp
  /\ nreq = 0
  /\ gen = NoGen
  /\ callers = <<>>
  /\ aud = NoAud
  /\ pipe = NoPipe

\* ------------------------------------------------------------- HTTP handlers
\* api_server.py receive_patch_plan: POST /patch-plan
receive_patch_plan(patch_plan) ==
  /\ Len(approvals) < MaxApprovals
  /\ nreq' = nreq + 1
  /\ IF ~mongo_up
     THEN \* collection.insert_one raised: caught, answered 500
          /\ resp' = Response("patch-plan", 500, "insert failed", UnknownId, Absent, <<>>)
          /\ UNCHANGED <<approvals, audit_log, audit_collection, uuid_seq>>
     ELSE LET log_entry == GenerationEntry(uuid_seq + 1, patch_plan)
              approval_id == Len(approvals) + 1
          IN /\ uuid_seq' = uuid_seq + 1
             /\ audit_log' = save_to_file(audit_log, log_entry)
             /\ audit_collection' = save_to_mongodb(audit_collection, log_entry)
             /\ approvals' = Append(approvals, NewApprovalRequest(approval_id, patch_plan, "automated_system"))
             /\ resp' = Response("patch-plan", 200, "Patch plan received", approval_id, Absent, <<>>)
  /\ UNCHANGED <<mongo_up, decision_collection, tasks, executions, backend_calls, reports, gen, callers, aud, pipe>>

\* routers/approval_router.py create_approval_request: POST /api/approval/request
create_approval_request(patch_plan, requester) ==
  /\ Len(approvals) < MaxApprovals
  /\ nreq' = nreq + 1
  /\ LET approval_id == Len(approvals) + 1
         log_entry == UserActionEntry(uuid_seq + 1, requester, "create_approval_request", approval_id)
     IN /\ approvals' = Append(approvals, NewApprovalRequest(approval_id, patch_plan, requester))
        /\ uuid_seq' = uuid_seq + 1
        /\ audit_log' = save_to_file(audit_log, log_entry)
        /\ audit_collection' = save_to_mongodb(audit_collection, log_entry)
        /\ resp' = Response("request", 200, "Approval request created successfully", approval_id, Absent, <<>>)
  /\ UNCHANGED <<mongo_up, decision_collection, tasks, executions, backend_calls, reports, gen, callers, aud, pipe>>

\* make_approval_decision with the decision logged before the lookup
make_approval_decision_logs_first(approval_id, decision, approver, comments) ==
  /\ nreq' = nreq + 1
  /\ LET patch_plan_id == IF Exists(approval_id) THEN approvals[approval_id].patch_plan_id ELSE "unknown"
         log_entry == DecisionEntry(uuid_seq + 1, approval_id, decision, approver, patch_plan_id, comments)
     IN /\ uuid_seq' = uuid_seq + 1
        /\ audit_log' = save_to_file(audit_log, log_entry)
        /\ decision_collection' = save_to_mongodb(decision_collection, log_entry)
  /\ IF ~Exists(approval_id)
     THEN /\ resp' = Response("decision", 404, "Approval request not found", approval_id, decision, <<>>)
          /\ UNCHANGED approvals
     ELSE /\ approvals' = [approvals EXCEPT ![approval_id] = update_approval_status(approvals[approval_id], decision, approver, comments)]
          /\ resp' = Response("decision", 200, "Approval decision recorded", approval_id, decision, <<>>)
  /\ UNCHANGED <<mongo_up, audit_collection, tasks, executions, backend_calls, reports, gen, callers, aud, pipe>>

\* routers/approval_router.py make_approval_decision: POST /api/approval/{id}/decision
make_approval_decision(approval_id, decision, approver, comments) ==
  /\ nreq' = nreq + 1
  /\ IF ~Exists(approval_id)
     THEN /\ resp' = Response("decision", 404, "Approval request not found", approval_id, decision, <<>>)
          /\ UNCHANGED <<approvals, audit_log, decision_collection, uuid_seq>>
     ELSE LET approval == approvals[approval_id]
              log_entry == DecisionEntry(uuid_seq + 1, approval_id, decision, approver, approval.patch_plan_id, comments)
          IN /\ approvals' = [approvals EXCEPT ![approval_id] = update_approval_status(approval, decision, approver, comments)]
             /\ uuid_seq' = uuid_seq + 1
             /\ audit_log' = save_to_file(audit_log, log_entry)
             /\ decision_collection' = save_to_mongodb(decision_collection, log_entry)
             /\ resp' = Response("decision", 200, "Approval decision recorded", approval_id, decision, <<>>)
  /\ UNCHANGED <<mongo_up, audit_collection, tasks, executions, backend_calls, reports, gen, callers, aud, pipe>>

\* the background task execute_approved_plan hands to BackgroundTasks.add_task
NewTask(approval_id, patch_plan) ==
  [approval_id |-> approval_id, patch_plan |-> patch_plan, pc |-> "queued", idx |-> 1, results |-> <<>>]

\* execute_approved_plan refusing only a rejected plan
execute_approved_plan_refuses_rejected(approval_id) ==
  /\ nreq' = nreq + 1
  /\ IF ~Exists(approval_id)
     THEN /\ resp' = Response("execute", 500, "Approval not found", approval_id, Absent, <<>>)
          /\ UNCHANGED tasks
     ELSE IF approvals[approval_id].status = "rejected"
     THEN /\ resp' = Response("execute", 500, "Plan not approved", approval_id, Absent, <<>>)
          /\ UNCHANGED tasks
     ELSE /\ Len(tasks) < MaxTasks
          /\ tasks' = Append(tasks, NewTask(approval_id, approvals[approval_id].patch_plan))
          /\ resp' = Response("execute", 200, "Execution started", approval_id, Absent, <<>>)
  /\ UNCHANGED <<approvals, audit_log, mongo_up, decision_collection, audit_collection, uuid_seq, executions, backend_calls, reports, gen, callers, aud, pipe>>

\* execute_approved_plan calling the executor itself and answering with the results
execute_approved_plan_inline(approval_id) ==
  /\ nreq' = nreq + 1
  /\ IF ~Exists(approval_id)
     THEN /\ resp' = Response("execute", 500, "Approval not found", approval_id, Absent, <<>>)
          /\ UNCHANGED <<tasks, executions, backend_calls>>
     ELSE IF approvals[approval_id].status # "approved"
     THEN /\ resp' = Response("execute", 500, "Plan not approved", approval_id, Absent, <<>>)
          /\ UNCHANGED <<tasks, executions, backend_calls>>
     ELSE /\ Len(tasks) < MaxTasks
          /\ \E outcome \in {"exit0", "nonzero", "raises"} :
               LET results == <<[cmd |-> "sudo apt update", success |-> (outcome = "exit0"), raised |-> (outcome = "raises")]>>
               IN /\ executions' = Append(executions, [via |-> "execute_approved_plan", approval_id |-> approval_id, plan_id |-> approvals[approval_id].patch_plan.audit_id])
                  /\ backend_calls' = Append(backend_calls, [via |-> "execute_approved_plan", kind |-> "remediation", cmd |-> "sudo apt update"])
                  /\ tasks' = Append(tasks, [NewTask(approval_id, approvals[approval_id].patch_plan) EXCEPT !.pc = "done", !.results = results])
                  /\ resp' = Response("execute", 200, "Execution started", approval_id, Absent, results)
  /\ UNCHANGED <<approvals, audit_log, mongo_up, decision_collection, audit_collection, uuid_seq, reports, gen, callers, aud, pipe>>

\* execute_approved_plan handing over the plan of the newest approval
execute_approved_plan_latest_plan(approval_id) ==
  /\ nreq' = nreq + 1
  /\ IF ~Exists(approval_id)
     THEN /\ resp' = Response("execute", 500, "Approval not found", approval_id, Absent, <<>>)
          /\ UNCHANGED tasks
     ELSE IF approvals[approval_id].status # "approved"
     THEN /\ resp' = Response("execute", 500, "Plan not approved", approval_id, Absent, <<>>)
          /\ UNCHANGED tasks
     ELSE /\ Len(tasks) < MaxTasks
          /\ tasks' = Append(tasks, NewTask(approval_id, Last(approvals).patch_plan))
          /\ resp' = Response("execute", 200, "Execution started", approval_id, Absent, <<>>)
  /\ UNCHANGED <<approvals, audit_log, mongo_up, decision_collection, audit_collection, uuid_seq, executions, backend_calls, reports, gen, callers, aud, pipe>>

\* routers/execution_router.py execute_approved_plan: POST /api/execute/
\* (the HTTPException raised inside the try is caught by `except Exception`
\* and raised again with status 500)
execute_approved_plan(approval_id) ==
  /\ nreq' = nreq + 1
  /\ IF ~Exists(approval_id)
     THEN /\ resp' = Response("execute", 500, "Approval not found", approval_id, Absent, <<>>)
          /\ UNCHANGED tasks
     ELSE IF approvals[approval_id].status # "approved"
     THEN /\ resp' = Response("execute", 500, "Plan not approved", approval_id, Absent, <<>>)
          /\ UNCHANGED tasks
     ELSE /\ Len(tasks) < MaxTasks
          /\ tasks' = Append(tasks, NewTask(approval_id, approvals[approval_id].patch_plan))
          /\ resp' = Response("execute", 200, "Execution started", approval_id, Absent, <<>>)
  /\ UNCHANGED <<approvals, audit_log, mongo_up, decision_collection, audit_collection, uuid_seq, executions, backend_calls, reports, gen, callers, aud, pipe>>

\* ------------------------------------------------------------- PatchExecutor
\* execute, up to the command loop: the debug log is named after
\* patch_plan['audit_id'], a KeyError when the plan has none
ExecuteOpens(patch_plan) == patch_plan.audit_id # Absent

\* execute, one turn of `for cmd in cmds`: results[cmd] from the return code,
\* or the failed result of the except branch
CommandResult(cmd, outcome) ==
  [cmd |-> cmd, success |-> (outcome = "exit0"), raised |-> (outcome = "raises")]

\* one invocation of PatchExecutor.execute, as the places it is called from see it
Invocation(via, approval_id, patch_plan) ==
  [via |-> via, approval_id |-> approval_id, plan_id |-> patch_plan.audit_id]

BackendCall(via, kind, cmd) == [via |-> via, kind |-> kind, cmd |-> cmd]

\* ------------------------------------------------------------- run_patches
\* routers/execution_router.py run_patches, lines 47-52: log the start
RunPatchesLogStart(k) ==
  /\ tasks[k].pc = "queued"
  /\ LET log_entry == UserActionEntry(uuid_seq + 1, "system", "patch_execution_started", tasks[k].approval_id)
     IN /\ uuid_seq' = uuid_seq + 1
        /\ audit_log' = save_to_file(audit_log, log_entry)
        /\ audit_collection' = save_to_mongodb(audit_collection, log_entry)
  /\ tasks' = [tasks EXCEPT ![k].pc = "started"]
  /\ UNCHANGED <<approvals, mongo_up, decision_collection, executions, backend_calls, reports, resp, nreq, gen, callers, aud, pipe>>

\* run_patches line 55: executor.execute(patch_plan) is entered
RunPatchesExecute(k) ==
  /\ tasks[k].pc = "started"
  /\ executions' = Append(executions, Invocation("run_patches", tasks[k].approval_id, tasks[k].patch_plan))
  /\ tasks' = [tasks EXCEPT ![k].pc = IF ExecuteOpens(tasks[k].patch_plan) THEN "running" ELSE "except"]
  /\ UNCHANGED <<approvals, audit_log, mongo_up, decision_collection, audit_collection, uuid_seq, backend_calls, reports, resp, nreq, gen, callers, aud, pipe>>

\* PatchExecutor.execute without the try/except around a command: a backend
\* call that raises leaves execute with no result recorded
RunPatchesCommand_unguarded(k, outcome) ==
  /\ tasks[k].pc = "running"
  /\ LET i == tasks[k].idx
     IN /\ backend_calls' = Append(backend_calls, BackendCall("run_patches", "remediation", cmds[i]))
        /\ tasks' = IF outcome = "raises"
                    THEN [tasks EXCEPT ![k].pc = "except"]
                    ELSE [tasks EXCEPT ![k].results = Append(@, CommandResult(cmds[i], outcome)),
                                       ![k].idx = i + 1,
                                       ![k].pc = IF i = Len(cmds) THEN "executed" ELSE "running"]
  /\ UNCHANGED <<approvals, audit_log, mongo_up, decision_collection, audit_collection, uuid_seq, executions, reports, resp, nreq, gen, callers, aud, pipe>>

\* PatchExecutor.execute, one command of the loop, run for task k
RunPatchesCommand(k, outcome) ==
  /\ tasks[k].pc = "running"
  /\ LET i == tasks[k].idx
     IN /\ backend_calls' = Append(backend_calls, BackendCall("run_patches", "remediation", cmds[i]))
        /\ tasks' = [tasks EXCEPT ![k].results = Append(@, CommandResult(cmds[i], outcome)),
                                  ![k].idx = i + 1,
                                  ![k].pc = IF i = Len(cmds) THEN "executed" ELSE "running"]
  /\ UNCHANGED <<approvals, audit_log, mongo_up, decision_collection, audit_collection, uuid_seq, executions, reports, resp, nreq, gen, callers, aud, pipe>>

\* the execution report run_patches builds from the results (lines 58-62)
ExecutionReport(approval_id, results) == [approval_id |-> approval_id, results |-> results]

\* run_patches lines 57-68: audit_logger.log_patch_execution(execution_report),
\* then the report is written to execution_logs/<approval_id>.json. The
\* attribute lookup raises AttributeError when the class has no such method.
RunPatchesLogCompletion(k) ==
  /\ tasks[k].pc = "executed"
  /\ IF "log_patch_execution" \in AuditLoggerMethods
     THEN LET log_entry == UserActionEntry(uuid_seq + 1, "system", "patch_execution", tasks[k].approval_id)
          IN /\ uuid_seq' = uuid_seq + 1
             /\ audit_log' = save_to_file(audit_log, log_entry)
             /\ audit_collection' = save_to_mongodb(audit_collection, log_entry)
             /\ reports' = {r \in reports : r.approval_id # tasks[k].approval_id} \cup {ExecutionReport(tasks[k].approval_id, tasks[k].results)}
             /\ tasks' = [tasks EXCEPT ![k].pc = "done"]
     ELSE /\ tasks' = [tasks EXCEPT ![k].pc = "except"]
          /\ UNCHANGED <<uuid_seq, audit_log, audit_collection, reports>>
  /\ UNCHANGED <<approvals, mongo_up, decision_collection, executions, backend_calls, resp, nreq, gen, callers, aud, pipe>>

\* run_patches lines 70-77: any exception is logged as patch_execution_failed
RunPatchesExcept(k) ==
  /\ tasks[k].pc = "except"
  /\ LET log_entry == UserActionEntry(uuid_seq + 1, "system", "patch_execution_failed", tasks[k].approval_id)
     IN /\ uuid_seq' = uuid_seq + 1
        /\ audit_log' = save_to_file(audit_log, log_entry)
        /\ audit_collection' = save_to_mongodb(audit_collection, log_entry)
  /\ tasks' = [tasks EXCEPT ![k].pc = "done"]
  /\ UNCHANGED <<approvals, mongo_up, decision_collection, executions, backend_calls, reports, resp, nreq, gen, callers, aud, pipe>>

\* ------------------------------------------------------------- the service
ReceivePatchPlan == nreq < MaxRequests /\ \E patch_plan \in PostedPlans : receive_patch_plan(patch_plan)
CreateApprovalRequest == nreq < MaxRequests /\ \E patch_plan \in PostedPlans, requester \in Requesters : create_approval_request(patch_plan, requester)
MakeApprovalDecision == nreq < MaxRequests /\ \E approval_id \in ApprovalIds \cup {UnknownId}, decision \in ApprovalStatus, approver \in Approvers, comments \in CommentTexts : make_approval_decision(approval_id, decision, approver, comments)
ExecuteApprovedPlan == nreq < MaxRequests /\ \E approval_id \in ApprovalIds \cup {UnknownId} : execute_approved_plan(approval_id)
LogStart == \E k \in DOMAIN tasks : RunPatchesLogStart(k)
ExecutorEnter == \E k \in DOMAIN tasks : RunPatchesExecute(k)
ExecutorCommand == \E k \in DOMAIN tasks, outcome \in CmdOutcomes : RunPatchesCommand(k, outcome)
LogCompletion == \E k \in DOMAIN tasks : RunPatchesLogCompletion(k)
LogFailure == \E k \in DOMAIN tasks : RunPatchesExcept(k)

Next ==
  \/ ReceivePatchPlan
  \/ CreateApprovalRequest
  \/ MakeApprovalDecision
  \/ ExecuteApprovedPlan
  \/ LogStart
  \/ ExecutorEnter
  \/ ExecutorCommand
  \/ LogCompletion
  \/ LogFailure

Spec == Init /\ [][Next]_vars

\* ------------------------------------------------------------- PatchPlanGenerator
\* what PatchExecutor._execute_wsl returns: {"success": True, "output": stdout},
\* or {"success": False, "error": stderr} (no "output" key) on a non-zero exit
Outputs == {OK, <<"n", "o", "k">>, <<"k", "o">>}
WslResults == {[success |-> TRUE, has_output |-> TRUE, output |-> o] : o \in Outputs} \cup {[success |-> FALSE, has_output |-> FALSE, output |-> <<>>]}

\* agents/auditor.py log_audit_entry: the entry AuditorAgent.run appends to the
\* same daily file
AuditorEntry(audit_id) ==
  [log_id |-> Absent, audit_id |-> audit_id, event_type |-> Absent, approval_id |-> Absent, patch_plan_id |-> Absent, resource_id |-> Absent, decision |-> Absent, approver |-> Absent, action |-> "patch_plan_generated", comments |-> Absent, timestamp |-> isoformat(Today), file |-> Today.day]

\* the constructor: deploy_mode is 'dry-run' or 'production'
InitGen ==
  /\ approvals = <<>>
  /\ audit_log = <<>>
  /\ mongo_up \in BOOLEAN
  /\ decision_collection = <<>>
  /\ audit_collection = <<>>
  /\ uuid_seq = 0
  /\ tasks = <<>>
  /\ executions = <<>>
  /\ backend_calls = <<>>
  /\ reports = {}
  /\ resp = NoResp
  /\ nreq = 0
  /\ gen \in {[NoGen EXCEPT !.pc = "idle", !.deploy_mode = m] : m \in {"dry-run", "production"}}
  /\ callers = <<>>
  /\ aud = NoAud
  /\ pipe = NoPipe

\* generate_patch_plan lines 40-65: phases 1 and 2. AuditorAgent.run logs its
\* entry and names the plan. The plan it returns carries no "pre_checks" key
\* (the list read at line 94 is then empty); any list is admitted here, for a
\* plan source that supplies them.
GenPlan(create, pre_checks) ==
  /\ gen.pc = "idle"
  /\ audit_log' = Append(audit_log, AuditorEntry("g1"))
  /\ gen' = [gen EXCEPT !.pc = "planned", !.create = create, !.plan = [audit_id |-> "g1", pre_checks |-> pre_checks]]
  /\ UNCHANGED <<approvals, mongo_up, decision_collection, audit_collection, uuid_seq, tasks, executions, backend_calls, reports, resp, nreq, callers, aud, pipe>>

\* generate_patch_plan lines 67-87: phase 3, the approval request and the
\* generation event, when create_approval_request is set
GenPhase3 ==
  /\ gen.pc = "planned"
  /\ IF gen.create
     THEN LET approval_id == Len(approvals) + 1
              log_entry == GenerationEntry(uuid_seq + 1, gen.plan)
          IN /\ approvals' = Append(approvals, NewApprovalRequest(approval_id, gen.plan, "automated_system"))
             /\ uuid_seq' = uuid_seq + 1
             /\ audit_log' = save_to_file(audit_log, log_entry)
             /\ audit_collection' = save_to_mongodb(audit_collection, log_entry)
             /\ gen' = [gen EXCEPT !.approval_id = approval_id, !.pc = IF gen.deploy_mode = "production" THEN "prechecks" ELSE "returned"]
     ELSE /\ gen' = [gen EXCEPT !.pc = IF gen.deploy_mode = "production" THEN "prechecks" ELSE "returned"]
          /\ UNCHANGED <<approvals, uuid_seq, audit_log, audit_collection>>
  /\ UNCHANGED <<mongo_up, decision_collection, tasks, executions, backend_calls, reports, resp, nreq, callers, aud, pipe>>

\* line 99: check.get("expect") and check["expect"] not in result["output"];
\* result["output"] is a KeyError when the command failed
PreCheckRaises(check, result) ==
  check.expect # <<>> /\ (~result.has_output \/ ~Contains(check.expect, result.output))

\* the pre-check loop going on after a failed check
GenPreCheckStep_goes_on(result, raises) ==
  /\ gen.pc = "prechecks"
  /\ gen.idx <= Len(gen.plan.pre_checks)
  /\ LET check == gen.plan.pre_checks[gen.idx]
     IN /\ backend_calls' = Append(backend_calls, BackendCall("generate_patch_plan", "precheck", check.command))
        /\ IF raises
           THEN gen' = [gen EXCEPT !.pc = "raised"]
           ELSE gen' = [gen EXCEPT !.check_results = Append(@, result), !.idx = @ + 1]
  /\ UNCHANGED <<approvals, audit_log, mongo_up, decision_collection, audit_collection, uuid_seq, tasks, executions, reports, resp, nreq, callers, aud, pipe>>

\* generate_patch_plan lines 94-100, one turn of the pre-check loop; `raises`
\* is _execute_wsl failing with anything but CalledProcessError
GenPreCheckStep(result, raises) ==
  /\ gen.pc = "prechecks"
  /\ gen.idx <= Len(gen.plan.pre_checks)
  /\ LET check == gen.plan.pre_checks[gen.idx]
     IN /\ backend_calls' = Append(backend_calls, BackendCall("generate_patch_plan", "precheck", check.command))
        /\ IF raises
           THEN gen' = [gen EXCEPT !.pc = "raised"]
           ELSE gen' = [gen EXCEPT !.check_results = Append(@, result),
                                   !.idx = @ + 1,
                                   !.pc = IF PreCheckRaises(check, result) THEN "raised" ELSE "prechecks"]
  /\ UNCHANGED <<approvals, audit_log, mongo_up, decision_collection, audit_collection, uuid_seq, tasks, executions, reports, resp, nreq, callers, aud, pipe>>

\* line 105: self.executor.execute(final_patch_plan) is entered once the loop is over
GenExecute ==
  /\ gen.pc = "prechecks"
  /\ gen.idx > Len(gen.plan.pre_checks)
  /\ executions' = Append(executions, Invocation("generate_patch_plan", gen.approval_id, gen.plan))
  /\ gen' = [gen EXCEPT !.pc = IF ExecuteOpens(gen.plan) THEN "running" ELSE "raised"]
  /\ UNCHANGED <<approvals, audit_log, mongo_up, decision_collection, audit_collection, uuid_seq, tasks, backend_calls, reports, resp, nreq, callers, aud, pipe>>

\* PatchExecutor.execute, one command of the loop, run for the generator
GenCommandStep(outcome) ==
  /\ gen.pc = "running"
  /\ LET i == gen.cmd_idx
     IN /\ backend_calls' = Append(backend_calls, BackendCall("generate_patch_plan", "remediation", cmds[i]))
        /\ gen' = [gen EXCEPT !.steps = Append(@, CommandResult(cmds[i], outcome)),
                              !.cmd_idx = i + 1,
                              !.pc = IF i = Len(cmds) THEN "executed" ELSE "running"]
  /\ UNCHANGED <<approvals, audit_log, mongo_up, decision_collection, audit_collection, uuid_seq, tasks, executions, reports, resp, nreq, callers, aud, pipe>>

\* lines 103-111: the report is attached to the plan, then
\* self.audit_logger.log_patch_execution(execution_report) is looked up
GenReport ==
  /\ gen.pc = "executed"
  /\ IF "log_patch_execution" \in AuditLoggerMethods
     THEN LET log_entry == UserActionEntry(uuid_seq + 1, "system", "patch_execution", gen.plan.audit_id)
          IN /\ uuid_seq' = uuid_seq + 1
             /\ audit_log' = save_to_file(audit_log, log_entry)
             /\ audit_collection' = save_to_mongodb(audit_collection, log_entry)
             /\ gen' = [gen EXCEPT !.report = TRUE, !.pc = "returned"]
     ELSE /\ gen' = [gen EXCEPT !.report = TRUE, !.pc = "raised"]
          /\ UNCHANGED <<uuid_seq, audit_log, audit_collection>>
  /\ UNCHANGED <<approvals, mongo_up, decision_collection, tasks, executions, backend_calls, reports, resp, nreq, callers, aud, pipe>>

MaxGenRequests == 1

GenStart == \E create \in BOOLEAN, pre_checks \in PreCheckLists : GenPlan(create, pre_checks)
GenPreCheck == \E result \in WslResults, raises \in BOOLEAN : GenPreCheckStep(result, raises)
GenCommand == \E outcome \in CmdOutcomes : GenCommandStep(outcome)
GenDecision == nreq < MaxGenRequests /\ \E approval_id \in DOMAIN approvals, decision \in ApprovalStatus, approver \in Approvers : make_approval_decision(approval_id, decision, approver, "")

NextGen ==
  \/ GenStart
  \/ GenPhase3
  \/ GenPreCheck
  \/ GenExecute
  \/ GenCommand
  \/ GenReport
  \/ GenDecision

SpecGen == InitGen /\ [][NextGen]_vars

\* ------------------------------------------------------------- concurrent decisions
\* Two callers of POST /api/approval/{id}/decision served by different workers
\* of the application (or any two users of HumanApprovalAgent on the same
\* directory). Each call reads and writes approval_<id>.json in the steps the
\* code takes; nothing orders the steps of one call against the other's.
NumCallers == 2
ConcApprovers == <<"alice", "bob", "carol">>

IdleCaller == [pc |-> "idle", approval_id |-> UnknownId, decision |-> Absent, approver |-> Absent, comments |-> "", approval |-> Absent, loaded |-> Absent]

InitConc ==
  /\ approvals = <<>>
  /\ audit_log = <<>>
  /\ mongo_up \in BOOLEAN
  /\ decision_collection = <<>>
  /\ audit_collection = <<>>
  /\ uuid_seq = 0
  /\ tasks = <<>>
  /\ executions = <<>>
  /\ backend_calls = <<>>
  /\ reports = {}
  /\ resp = NoResp
  /\ nreq = 0
  /\ gen = NoGen
  /\ callers = [c \in 1 .. NumCallers |-> IdleCaller]
  /\ aud = NoAud
  /\ pipe = NoPipe

\* make_approval_decision lines 92-94: the router's own lookup
CallerLookup(c, approval_id, decision, comments) ==
  /\ callers[c].pc = "idle"
  /\ callers' = [callers EXCEPT ![c] = [@ EXCEPT !.approval_id = approval_id, !.decision = decision, !.approver = ConcApprovers[c], !.comments = comments,
                                               !.approval = IF Exists(approval_id) THEN approvals[approval_id] ELSE Absent,
                                               !.pc = IF Exists(approval_id) THEN "found" ELSE "not_found"]]
  /\ UNCHANGED <<approvals, audit_log, mongo_up, decision_collection, audit_collection, uuid_seq, tasks, executions, backend_calls, reports, resp, nreq, gen, aud, pipe>>

\* update_approval_status lines 78-83: the agent loads the file
CallerLoad(c) ==
  /\ callers[c].pc = "found"
  /\ callers' = [callers EXCEPT ![c].loaded = approvals[callers[c].approval_id], ![c].pc = "loaded"]
  /\ UNCHANGED <<approvals, audit_log, mongo_up, decision_collection, audit_collection, uuid_seq, tasks, executions, backend_calls, reports, resp, nreq, gen, aud, pipe>>

\* update_approval_status lines 85-109: the loaded record is updated and the
\* file is written over
CallerSave(c) ==
  /\ callers[c].pc = "loaded"
  /\ approvals' = [approvals EXCEPT ![callers[c].approval_id] = update_approval_status(callers[c].loaded, callers[c].decision, callers[c].approver, callers[c].comments)]
  /\ callers' = [callers EXCEPT ![c].pc = "saved"]
  /\ UNCHANGED <<audit_log, mongo_up, decision_collection, audit_collection, uuid_seq, tasks, executions, backend_calls, reports, resp, nreq, gen, aud, pipe>>

\* make_approval_decision lines 107-125: the decision is logged and answered
CallerLog(c) ==
  /\ callers[c].pc = "saved"
  /\ LET log_entry == DecisionEntry(uuid_seq + 1, callers[c].approval_id, callers[c].decision, callers[c].approver, callers[c].approval.patch_plan_id, callers[c].comments)
     IN /\ uuid_seq' = uuid_seq + 1
        /\ audit_log' = save_to_file(audit_log, log_entry)
        /\ decision_collection' = save_to_mongodb(decision_collection, log_entry)
  /\ callers' = [callers EXCEPT ![c].pc = "done"]
  /\ UNCHANGED <<approvals, mongo_up, audit_collection, tasks, executions, backend_calls, reports, resp, nreq, gen, aud, pipe>>

ConcCreate == \E patch_plan \in PostedPlans, requester \in Requesters : create_approval_request(patch_plan, requester)
ConcLookup == \E c \in DOMAIN callers, approval_id \in DOMAIN approvals \cup {UnknownId}, decision \in ApprovalStatus, comments \in CommentTexts : CallerLookup(c, approval_id, decision, comments)
ConcLoad == \E c \in DOMAIN callers : CallerLoad(c)
ConcSave == \E c \in DOMAIN callers : CallerSave(c)
ConcLog == \E c \in DOMAIN callers : CallerLog(c)

NextConc ==
  \/ ConcCreate
  \/ ConcLookup
  \/ ConcLoad
  \/ ConcSave
  \/ ConcLog

SpecConc == InitConc /\ [][NextConc]_vars

\* ------------------------------------------------------------- audit trail
\* The calls on AuditLoggerAgent and AuditorAgent.log_audit_entry, one after
\* the other (SpecTrail, SpecSink) and with their file reads and writes
\* interleaved (SpecWriters).
MaxAuditOps == 3

\* a log entry written when the clock reads t: its "timestamp", and the day of
\* the audit_<YYYYMMDD>.json it is saved in
Stamped(log_entry, t) == [log_entry EXCEPT !.timestamp = isoformat(t), !.file = t.day]

\* the ids audit entries are linked to, and a plan id no query asks for
Resources == {"r1", "r2"}
OtherPlan == "p0"

\* the content of one daily file, and of the other files
FileLogs(log, day) == SelectSeq(log, LAMBDA e : e.file = day)
OtherFiles(log, day) == SelectSeq(log, LAMBDA e : e.file # day)

\* _save_to_file lines 211-217: json.load of the day's file; a file that does
\* not parse is read as []
LoadLogs(log, corrupt, day) == IF day \in corrupt THEN <<>> ELSE FileLogs(log, day)

\* how writing the day's file ends: open(log_file, "w") raises and the file is
\* untouched, json.dump raises after open truncated the file, or the list is
\* written
FileOutcomes == {"written", "open_raises", "dump_raises"}

\* _save_to_file lines 222-225: the directory after the write
WriteLogs(log, day, logs, outcome) ==
  CASE outcome = "written" -> OtherFiles(log, day) \o logs
    [] outcome = "open_raises" -> log
    [] outcome = "dump_raises" -> OtherFiles(log, day)

CorruptAfter(corrupt, day, outcome) ==
  CASE outcome = "written" -> corrupt \ {day}
    [] outcome = "open_raises" -> corrupt
    [] outcome = "dump_raises" -> corrupt \cup {day}

\* a log_* method with the secondary sink written before the primary file
LogAndSave_mongo_first(op, log_entry, collection_type, outcome) ==
  LET day == log_entry.file
      logs == Append(LoadLogs(audit_log, aud.corrupt, day), log_entry)
      written == outcome = "written"
  IN /\ uuid_seq' = uuid_seq + 1
     /\ audit_log' = WriteLogs(audit_log, day, logs, outcome)
     /\ decision_collection' = IF collection_type = "decision_log" THEN save_to_mongodb(decision_collection, log_entry) ELSE decision_collection
     /\ audit_collection' = IF collection_type # "decision_log" THEN save_to_mongodb(audit_collection, log_entry) ELSE audit_collection
     /\ aud' = [aud EXCEPT !.corrupt = CorruptAfter(@, day, outcome),
                           !.nops = @ + 1,
                           !.appended = IF written THEN Append(@, log_entry) ELSE @,
                           !.result = [op |-> op, status |-> IF written THEN "returned" ELSE "raised", log_id |-> IF written THEN log_entry.log_id ELSE 0, resource_id |-> Absent, primary |-> outcome,
                                       swallowed |-> {"json.load" : x \in {day} \cap aud.corrupt} \cup {"insert_one" : x \in {mongo_up} \ {TRUE}}, trail |-> <<>>]]
     /\ UNCHANGED <<approvals, mongo_up, tasks, executions, backend_calls, reports, resp, nreq, gen, callers, pipe>>

\* the body the three log_* methods share: _save_to_file(log_entry), then
\* _save_to_mongodb(log_entry, collection_type), then return log_id; an
\* exception of the file write leaves the method at once
LogAndSave(op, log_entry, collection_type, outcome) ==
  LET day == log_entry.file
      logs == Append(LoadLogs(audit_log, aud.corrupt, day), log_entry)
      written == outcome = "written"
  IN /\ uuid_seq' = uuid_seq + 1
     /\ audit_log' = WriteLogs(audit_log, day, logs, outcome)
     /\ decision_collection' = IF written /\ collection_type = "decision_log" THEN save_to_mongodb(decision_collection, log_entry) ELSE decision_collection
     /\ audit_collection' = IF written /\ collection_type # "decision_log" THEN save_to_mongodb(audit_collection, log_entry) ELSE audit_collection
     /\ aud' = [aud EXCEPT !.corrupt = CorruptAfter(@, day, outcome),
                           !.nops = @ + 1,
                           !.appended = IF written THEN Append(@, log_entry) ELSE @,
                           !.result = [op |-> op, status |-> IF written THEN "returned" ELSE "raised", log_id |-> IF written THEN log_entry.log_id ELSE 0, resource_id |-> Absent, primary |-> outcome,
                                       swallowed |-> {"json.load" : x \in {day} \cap aud.corrupt} \cup {"insert_one" : x \in {mongo_up} \ {TRUE}}, trail |-> <<>>]]
     /\ UNCHANGED <<approvals, mongo_up, tasks, executions, backend_calls, reports, resp, nreq, gen, callers, pipe>>

log_approval_decision(approval_id, patch_plan_id, decision, approver, comments, t, outcome) ==
  LogAndSave("log_approval_decision", Stamped(DecisionEntry(uuid_seq + 1, approval_id, decision, approver, patch_plan_id, comments), t), "decision_log", outcome)

log_patch_plan_generation(patch_plan, t, outcome) ==
  LogAndSave("log_patch_plan_generation", Stamped(GenerationEntry(uuid_seq + 1, patch_plan), t), "generation_log", outcome)

log_user_action(user_id, action, resource_id, t, outcome) ==
  LogAndSave("log_user_action", Stamped(UserActionEntry(uuid_seq + 1, user_id, action, resource_id), t), "user_actions", outcome)

\* AuditorAgent.log_audit_entry on the same daily file: json.load is not
\* guarded, no secondary sink
log_audit_entry(t, outcome) ==
  LET audit_entry == Stamped(AuditorEntry("g1"), t)
      day == t.day
      loads == day \notin aud.corrupt
      written == loads /\ outcome = "written"
  IN /\ audit_log' = IF loads THEN WriteLogs(audit_log, day, Append(FileLogs(audit_log, day), audit_entry), outcome) ELSE audit_log
     /\ aud' = [aud EXCEPT !.corrupt = IF loads THEN CorruptAfter(@, day, outcome) ELSE @,
                           !.nops = @ + 1,
                           !.appended = IF written THEN Append(@, audit_entry) ELSE @,
                           !.result = [NoResult EXCEPT !.op = "log_audit_entry", !.status = IF written THEN "returned" ELSE "raised", !.primary = IF loads THEN outcome ELSE "load_raises"]]
     /\ UNCHANGED <<approvals, mongo_up, decision_collection, audit_collection, uuid_seq, tasks, executions, backend_calls, reports, resp, nreq, gen, callers, pipe>>

\* the days a file audit_<day>.json exists for, and the orders glob may
\* yield them in
FileDays == {audit_log[i].file : i \in DOMAIN audit_log} \cup aud.corrupt
GlobOrders == {o \in [1 .. Cardinality(FileDays) -> FileDays] : \A i, j \in 1 .. Cardinality(FileDays) : o[i] = o[j] => i = j}

\* get_audit_trail lines 131-139: the entries of the files, in glob order,
\* whose approval_id or patch_plan_id is resource_id
RECURSIVE FileMatches(_, _)
FileMatches(order, resource_id) ==
  IF order = <<>> THEN <<>>
  ELSE SelectSeq(FileLogs(audit_log, Head(order)), LAMBDA e : e.approval_id = resource_id \/ e.patch_plan_id = resource_id) \o FileMatches(Tail(order), resource_id)

\* lines 141-156: audit_collection.find({"$or": ...}); an exception of the
\* query is printed and the file matches are kept
MongoMatches(resource_id) ==
  IF mongo_up THEN SelectSeq(audit_collection, LAMBDA e : e.approval_id = resource_id \/ e.patch_plan_id = resource_id \/ e.resource_id = resource_id) ELSE <<>>

\* list.sort(key=lambda x: x["timestamp"]): stable, by the timestamp string
RECURSIVE sort(_)
sort(l) ==
  IF l = <<>> THEN <<>>
  ELSE LET x == Last(l)
           rest == sort(SubSeq(l, 1, Len(l) - 1))
           n == Cardinality({i \in DOMAIN rest : ~StrLess(x.timestamp, rest[i].timestamp)})
       IN SubSeq(rest, 1, n) \o <<x>> \o SubSeq(rest, n + 1, Len(rest))

\* get_audit_trail without its closing sort
get_audit_trail_unsorted(resource_id, order) == FileMatches(order, resource_id) \o MongoMatches(resource_id)

\* get_audit_trail: the list returned when every file parses
get_audit_trail(resource_id, order) == sort(FileMatches(order, resource_id) \o MongoMatches(resource_id))

\* get_audit_trail raises on a file matching audit_*.json that does not
\* hold a list of entries: json.load of a file that does not parse raises,
\* and a report file holds a dict, whose keys `for log in logs` yields as
\* strings, so that log.get raises AttributeError
TrailLoads == aud.corrupt = {} /\ aud.report_files = {}

\* AuditLoggerAgent.export_audit_report: the trail, then for format json the
\* report file written into audit_log_path
export_audit_report(resource_id, order, format) ==
  /\ aud' = IF TrailLoads
            THEN [aud EXCEPT !.result = [NoResult EXCEPT !.op = "export_audit_report", !.status = "returned", !.resource_id = resource_id, !.trail = get_audit_trail(resource_id, order)],
                             !.report_files = IF format = "json" THEN @ \cup {<<resource_id, Today.day>>} ELSE @]
            ELSE [aud EXCEPT !.result = [NoResult EXCEPT !.op = "export_audit_report", !.status = "raised", !.resource_id = resource_id]]
  /\ UNCHANGED <<approvals, audit_log, mongo_up, decision_collection, audit_collection, uuid_seq, tasks, executions, backend_calls, reports, resp, nreq, gen, callers, pipe>>

\* a call of get_audit_trail
GetAuditTrail(resource_id, order) ==
  /\ aud' = [aud EXCEPT !.result = IF TrailLoads
                                   THEN [NoResult EXCEPT !.op = "get_audit_trail", !.status = "returned", !.resource_id = resource_id, !.swallowed = {"find" : x \in {mongo_up} \ {TRUE}}, !.trail = get_audit_trail(resource_id, order)]
                                   ELSE [NoResult EXCEPT !.op = "get_audit_trail", !.status = "raised", !.resource_id = resource_id]]
  /\ UNCHANGED <<approvals, audit_log, mongo_up, decision_collection, audit_collection, uuid_seq, tasks, executions, backend_calls, reports, resp, nreq, gen, callers, pipe>>

\* the MongoDB server at localhost:27017 goes away or comes back
MongoChanges ==
  /\ mongo_up' = ~mongo_up
  /\ UNCHANGED <<approvals, audit_log, decision_collection, audit_collection, uuid_seq, tasks, executions, backend_calls, reports, resp, nreq, gen, callers, aud, pipe>>

\* SpecTrail: appends that succeed, at any clock reading, and queries
TrailDecision == aud.nops < MaxAuditOps /\ \E t \in Times : log_approval_decision("r1", OtherPlan, "approved", "alice", "", t, "written")
TrailGeneration == aud.nops < MaxAuditOps /\ \E t \in Times : log_patch_plan_generation([audit_id |-> "r1", pre_checks |-> <<>>], t, "written")
TrailUserAction == aud.nops < MaxAuditOps /\ \E t \in Times : log_user_action("alice", "view", "r1", t, "written")
TrailQuery == \E order \in GlobOrders : GetAuditTrail("r1", order)

NextTrail ==
  \/ TrailDecision
  \/ TrailGeneration
  \/ TrailUserAction
  \/ TrailQuery
  \/ MongoChanges

SpecTrail == Init /\ [][NextTrail]_vars

\* SpecExport: appends that succeed, exports and queries
ReportFormats == {"json", "csv"}
ExportDecision == aud.nops < MaxAuditOps /\ \E r \in Resources : log_approval_decision(r, OtherPlan, "approved", "alice", "", Today, "written")
ExportUserAction == aud.nops < MaxAuditOps /\ \E r \in Resources : log_user_action("alice", "view", r, Today, "written")
ExportReport == \E r \in Resources, order \in GlobOrders, format \in ReportFormats : export_audit_report(r, order, format)
ExportQuery == \E r \in Resources, order \in GlobOrders : GetAuditTrail(r, order)

NextExport ==
  \/ ExportDecision
  \/ ExportUserAction
  \/ ExportReport
  \/ ExportQuery

SpecExport == Init /\ [][NextExport]_vars

\* SpecSink: appends whose file write may fail, on one day, and queries
SinkDecision == aud.nops < MaxAuditOps /\ \E r \in Resources, outcome \in FileOutcomes : log_approval_decision(r, OtherPlan, "approved", "alice", "", Today, outcome)
SinkGeneration == aud.nops < MaxAuditOps /\ \E r \in Resources, outcome \in FileOutcomes : log_patch_plan_generation([audit_id |-> r, pre_checks |-> <<>>], Today, outcome)
SinkUserAction == aud.nops < MaxAuditOps /\ \E r \in Resources, outcome \in FileOutcomes : log_user_action("alice", "view", r, Today, outcome)
SinkAuditor == aud.nops < MaxAuditOps /\ \E outcome \in FileOutcomes : log_audit_entry(Today, outcome)
SinkQuery == \E r \in Resources, order \in GlobOrders : GetAuditTrail(r, order)

NextSink ==
  \/ SinkDecision
  \/ SinkGeneration
  \/ SinkUserAction
  \/ SinkAuditor
  \/ SinkQuery
  \/ MongoChanges

SpecSink == Init /\ [][NextSink]_vars

\* ------------------------------------------------------------- concurrent writers
\* SpecWriters: calls of log_user_action whose steps inside _save_to_file
\* interleave - the handlers run on the event loop, run_patches in a worker
\* thread, both on the module's one AuditLoggerAgent and one daily file; the
\* code takes no lock.
NumWriters == 2

\* the actions the router and run_patches log
WriterActions == {"create_approval_request", "patch_execution_started"}

IdleWriter == [pc |-> "idle", log_entry |-> Stamped(UserActionEntry(0, Absent, Absent, Absent), Today), logs |-> <<>>]

InitWriters ==
  /\ approvals = <<>>
  /\ audit_log = <<>>
  /\ mongo_up \in BOOLEAN
  /\ decision_collection = <<>>
  /\ audit_collection = <<>>
  /\ uuid_seq = 0
  /\ tasks = <<>>
  /\ executions = <<>>
  /\ backend_calls = <<>>
  /\ reports = {}
  /\ resp = NoResp
  /\ nreq = 0
  /\ gen = NoGen
  /\ callers = <<>>
  /\ aud = [NoAud EXCEPT !.writers = [w \in 1 .. NumWriters |-> IdleWriter]]
  /\ pipe = NoPipe

\* log_user_action lines 103-114: the entry is built
WriterCall(w, action, resource_id) ==
  /\ aud.writers[w].pc = "idle"
  /\ uuid_seq' = uuid_seq + 1
  /\ aud' = [aud EXCEPT !.writers[w].pc = "called", !.writers[w].log_entry = Stamped(UserActionEntry(uuid_seq + 1, "system", action, resource_id), Today)]
  /\ UNCHANGED <<approvals, audit_log, mongo_up, decision_collection, audit_collection, tasks, executions, backend_calls, reports, resp, nreq, gen, callers, pipe>>

\* _save_to_file lines 211-219: the day's list is loaded and the entry
\* appended to the loaded copy
WriterLoad(w) ==
  /\ aud.writers[w].pc = "called"
  /\ aud' = [aud EXCEPT !.writers[w].pc = "loaded", !.writers[w].logs = Append(LoadLogs(audit_log, aud.corrupt, aud.writers[w].log_entry.file), aud.writers[w].log_entry)]
  /\ UNCHANGED <<approvals, audit_log, mongo_up, decision_collection, audit_collection, uuid_seq, tasks, executions, backend_calls, reports, resp, nreq, gen, callers, pipe>>

\* line 222: open(log_file, "w") leaves the file empty
WriterOpen(w) ==
  /\ aud.writers[w].pc = "loaded"
  /\ audit_log' = OtherFiles(audit_log, aud.writers[w].log_entry.file)
  /\ aud' = [aud EXCEPT !.writers[w].pc = "opened", !.corrupt = @ \cup {aud.writers[w].log_entry.file}]
  /\ UNCHANGED <<approvals, mongo_up, decision_collection, audit_collection, uuid_seq, tasks, executions, backend_calls, reports, resp, nreq, gen, callers, pipe>>

\* lines 223-225: json.dump writes the copy and the file is closed
WriterDump(w) ==
  /\ aud.writers[w].pc = "opened"
  /\ audit_log' = WriteLogs(audit_log, aud.writers[w].log_entry.file, aud.writers[w].logs, "written")
  /\ aud' = [aud EXCEPT !.writers[w].pc = "dumped", !.corrupt = CorruptAfter(@, aud.writers[w].log_entry.file, "written")]
  /\ UNCHANGED <<approvals, mongo_up, decision_collection, audit_collection, uuid_seq, tasks, executions, backend_calls, reports, resp, nreq, gen, callers, pipe>>

\* log_user_action lines 119-123: the secondary sink, then return log_id
WriterReturn(w) ==
  /\ aud.writers[w].pc = "dumped"
  /\ audit_collection' = save_to_mongodb(audit_collection, aud.writers[w].log_entry)
  /\ aud' = [aud EXCEPT !.writers[w].pc = "done", !.appended = Append(@, aud.writers[w].log_entry)]
  /\ UNCHANGED <<approvals, audit_log, mongo_up, decision_collection, uuid_seq, tasks, executions, backend_calls, reports, resp, nreq, gen, callers, pipe>>

WritersCall == \E w \in DOMAIN aud.writers, action \in WriterActions, resource_id \in Resources : WriterCall(w, action, resource_id)
WritersLoad == \E w \in DOMAIN aud.writers : WriterLoad(w)
WritersOpen == \E w \in DOMAIN aud.writers : WriterOpen(w)
WritersDump == \E w \in DOMAIN aud.writers : WriterDump(w)
WritersReturn == \E w \in DOMAIN aud.writers : WriterReturn(w)

NextWriters ==
  \/ WritersCall
  \/ WritersLoad
  \/ WritersOpen
  \/ WritersDump
  \/ WritersReturn

SpecWriters == InitWriters /\ [][NextWriters]_vars

\* ------------------------------------------------------------- decisions with a failing audit write
\* routers/approval_router.py make_approval_decision lines 92-130 when
\* log_approval_decision raises: _save_to_file cannot open the day's file for
\* writing (the file is left as it was). update_approval_status has already
\* written the approval; the exception is caught at line 129 and answered 500.
make_approval_decision_log_raises(approval_id, decision, approver, comments) ==
  /\ Exists(approval_id)
  /\ nreq' = nreq + 1
  /\ approvals' = [approvals EXCEPT ![approval_id] = update_approval_status(approvals[approval_id], decision, approver, comments)]
  /\ uuid_seq' = uuid_seq + 1
  /\ resp' = Response("decision", 500, "Failed to record decision", approval_id, decision, <<>>)
  /\ UNCHANGED <<audit_log, mongo_up, decision_collection, audit_collection, tasks, executions, backend_calls, reports, gen, callers, aud, pipe>>

MakeApprovalDecisionLogRaises == nreq < MaxRequests /\ \E approval_id \in ApprovalIds, decision \in ApprovalStatus, approver \in Approvers, comments \in CommentTexts : make_approval_decision_log_raises(approval_id, decision, approver, comments)

\* SpecDecide: the approval router on an audit directory whose files may
\* refuse a write
NextDecide ==
  \/ CreateApprovalRequest
  \/ MakeApprovalDecision
  \/ MakeApprovalDecisionLogRaises

SpecDecide == Init /\ [][NextDecide]_vars

\* ------------------------------------------------------------- RiskAssessorAgent
\* cve["severity"] as a feed may carry it; Absent is a CVE without the key
Severities == {"critical", "High", "medium", "low", "info", "", Absent}

\* str.lower() on these
lower(s) == IF s = "High" THEN "high" ELSE s

\* random.choice([...]) at lines 21 and 22
DependencyRisks == {"low", "medium", "high"}
RollbackDifficulties == {"easy", "moderate", "hard"}

\* llm_reasoner.py LLMReasoningAgent.run: the completion text, or the marker
\* returned by `except Exception`
LLMOutcomes == {"answers", "raises"}
LLMRun(outcome) == IF outcome = "raises" THEN "[LLM Error]" ELSE "assessment text"

\* score_patch with the sum returned as it is
score_patch_uncapped(cve, dependency_risk, rollback_difficulty, use_llm, outcome) ==
  LET severity == lower(Get(cve.severity, ""))
      base_score == CASE severity = "critical" -> 90 [] severity = "high" -> 75 [] severity = "medium" -> 50 [] severity = "low" -> 30 [] OTHER -> 10
      with_dependency == base_score + (CASE dependency_risk = "high" -> 10 [] dependency_risk = "medium" -> 5 [] OTHER -> 0)
      with_rollback == with_dependency + (CASE rollback_difficulty = "hard" -> 5 [] rollback_difficulty = "moderate" -> 2 [] OTHER -> 0)
  IN [cve_id |-> cve.id, severity |-> severity, risk_score |-> with_rollback, dependency_risk |-> dependency_risk, rollback_difficulty |-> rollback_difficulty,
      llm_reasoning |-> IF use_llm THEN LLMRun(outcome) ELSE ""]

\* score_patch whose score is lost when the reasoner fails
score_patch_needs_llm(cve, dependency_risk, rollback_difficulty, use_llm, outcome) ==
  [score_patch_uncapped(cve, dependency_risk, rollback_difficulty, use_llm, outcome) EXCEPT !.risk_score = IF use_llm /\ outcome = "raises" THEN 0 ELSE IF @ < 100 THEN @ ELSE 100]

\* risk_assessor.py score_patch: the assessment returned for a CVE, given what
\* the two random.choice calls drew and how the reasoner's call ended
score_patch(cve, dependency_risk, rollback_difficulty, use_llm, outcome) ==
  LET severity == lower(Get(cve.severity, ""))
      base_score == CASE severity = "critical" -> 90 [] severity = "high" -> 75 [] severity = "medium" -> 50 [] severity = "low" -> 30 [] OTHER -> 10
      with_dependency == base_score + (CASE dependency_risk = "high" -> 10 [] dependency_risk = "medium" -> 5 [] OTHER -> 0)
      with_rollback == with_dependency + (CASE rollback_difficulty = "hard" -> 5 [] rollback_difficulty = "moderate" -> 2 [] OTHER -> 0)
      score == IF with_rollback < 100 THEN with_rollback ELSE 100
  IN [cve_id |-> cve.id, severity |-> severity, risk_score |-> score, dependency_risk |-> dependency_risk, rollback_difficulty |-> rollback_difficulty,
      llm_reasoning |-> IF use_llm THEN LLMRun(outcome) ELSE ""]

\* RiskAssessorAgent(use_llm, llm_reasoner) and the CVE handed to score_patch
InitScore ==
  /\ approvals = <<>>
  /\ audit_log = <<>>
  /\ mongo_up \in BOOLEAN
  /\ decision_collection = <<>>
  /\ audit_collection = <<>>
  /\ uuid_seq = 0
  /\ tasks = <<>>
  /\ executions = <<>>
  /\ backend_calls = <<>>
  /\ reports = {}
  /\ resp = NoResp
  /\ nreq = 0
  /\ gen = NoGen
  /\ callers = <<>>
  /\ aud = NoAud
  /\ pipe \in {[NoPipe EXCEPT !.pc = "cve", !.cve = [id |-> 1, severity |-> sev], !.use_llm = u] : sev \in Severities, u \in BOOLEAN}

\* one call of score_patch; llm records how the reasoner's call ended
ScorePatch(dependency_risk, rollback_difficulty, outcome) ==
  /\ pipe.pc = "cve"
  /\ pipe' = [pipe EXCEPT !.pc = "scored",
                          !.llm = IF pipe.use_llm THEN outcome ELSE "not called",
                          !.assessment = score_patch(pipe.cve, dependency_risk, rollback_difficulty, pipe.use_llm, outcome)]
  /\ UNCHANGED <<approvals, audit_log, mongo_up, decision_collection, audit_collection, uuid_seq, tasks, executions, backend_calls, reports, resp, nreq, gen, callers, aud>>

\* the caller takes the next CVE of the feed (assess_all)
NextCve ==
  /\ pipe.pc = "scored"
  /\ \E sev \in Severities : pipe' = [pipe EXCEPT !.pc = "cve", !.llm = "not called", !.cve = [id |-> 1, severity |-> sev]]
  /\ UNCHANGED <<approvals, audit_log, mongo_up, decision_collection, audit_collection, uuid_seq, tasks, executions, backend_calls, reports, resp, nreq, gen, callers, aud>>

Score == \E dependency_risk \in DependencyRisks, rollback_difficulty \in RollbackDifficulties, outcome \in LLMOutcomes : ScorePatch(dependency_risk, rollback_difficulty, outcome)

NextScore ==
  \/ Score
  \/ NextCve

SpecScore == InitScore /\ [][NextScore]_vars

\* ------------------------------------------------------------- PatchSchedulerAgent, AuditorAgent
MaxCves == 2
MaxSystems == 2

\* the systems of mock_systems.json: type, environment, affected_services
SystemKinds ==
  {[type |-> "database", environment |-> "production", affected_services |-> <<"user_data", "transactions">>],
   [type |-> "web_server", environment |-> "production", affected_services |-> <<"web_frontend">>],
   [type |-> "development", environment |-> "development", affected_services |-> <<"dev_testing">>],
   [type |-> "staging", environment |-> "staging", affected_services |-> <<"staging_tests">>],
   [type |-> "web_server", environment |-> "staging", affected_services |-> <<"user_data">>]}

\* an inventory: self.systems["systems"], the i-th system has id i
Inventories ==
  UNION {{[i \in 1 .. n |-> [id |-> i, type |-> k[i].type, environment |-> k[i].environment, affected_services |-> k[i].affected_services]] : k \in [1 .. n -> SystemKinds]} : n \in 0 .. MaxSystems}

\* the assessments assess_all hands over: one per CVE, score_patch's result
\* for the CVE's severity with the smallest modifiers and, for critical
\* (the capped score) and medium (the score nearest to 70), the largest
ScoredSeverities == {"critical", "high", "medium", "low", "info"}
DrawnModifiers == {[dependency_risk |-> "low", rollback_difficulty |-> "easy"], [dependency_risk |-> "high", rollback_difficulty |-> "hard"]}
DrawnCves == {c \in ScoredSeverities \X DrawnModifiers : c[2].dependency_risk = "low" \/ c[1] \in {"critical", "medium"}}
PatchRiskLists ==
  UNION {{[i \in 1 .. n |-> score_patch([id |-> i, severity |-> c[i][1]], c[i][2].dependency_risk, c[i][2].rollback_difficulty, FALSE, "answers")] : c \in [1 .. n -> DrawnCves]} : n \in 0 .. MaxCves}

\* _select_target_systems with the low-severity filter for every severity
select_target_systems_dev_first(systems, risk_score, severity) ==
  SelectSeq(systems, LAMBDA sys : sys.environment \in {"development", "staging"})

\* patch_scheduler.py _select_target_systems
select_target_systems(systems, risk_score, severity) ==
  IF severity \in {"critical", "high"}
  THEN SelectSeq(systems, LAMBDA sys : sys.environment \in {"production", "staging"})
  ELSE IF severity = "medium"
       THEN SelectSeq(systems, LAMBDA sys : sys.environment \in {"production", "staging"})
       ELSE SelectSeq(systems, LAMBDA sys : sys.environment \in {"development", "staging"})

\* _estimate_duration
estimate_duration(severity) ==
  CASE severity = "critical" -> "2-4 hours" [] severity = "high" -> "1-3 hours" [] severity = "medium" -> "30-60 minutes" [] severity = "low" -> "15-30 minutes" [] OTHER -> "30-60 minutes"

\* map_patches_to_systems lines 103-110: {**patch_risk, "target_system": ...}
\* (scheduled_time is the subject of SpecWindow; prerequisites and
\* rollback_plan are texts chosen by the system's fields, not kept here)
ScheduledPatch(patch_risk, system) ==
  [target_system |-> system, estimated_duration |-> estimate_duration(patch_risk.severity)] @@ patch_risk

\* map_patches_to_systems: for each assessment, one patch per target system
RECURSIVE map_patches_to_systems(_, _)
map_patches_to_systems(patch_risks, systems) ==
  IF patch_risks = <<>> THEN <<>>
  ELSE LET patch_risk == Head(patch_risks)
           target_systems == select_target_systems(systems, patch_risk.risk_score, patch_risk.severity)
       IN [i \in DOMAIN target_systems |-> ScheduledPatch(patch_risk, target_systems[i])] \o map_patches_to_systems(Tail(patch_risks), systems)

\* auditor.py compliance_frameworks
compliance_frameworks ==
  [fw \in {"PCI-DSS", "HIPAA", "SOX", "ISO27001"} |->
     CASE fw = "PCI-DSS" -> [requirements |-> <<"vulnerability_management", "regular_testing", "access_controls">>, patch_timeline |-> "within_30_days"]
       [] fw = "HIPAA" -> [requirements |-> <<"security_risk_assessment", "assigned_security_responsibility">>, patch_timeline |-> "within_60_days"]
       [] fw = "SOX" -> [requirements |-> <<"change_management", "access_controls", "monitoring">>, patch_timeline |-> "within_90_days"]
       [] fw = "ISO27001" -> [requirements |-> <<"vulnerability_management", "incident_response">>, patch_timeline |-> "risk_based"]]

Range(seq) == {seq[i] : i \in DOMAIN seq}

\* list(set(...)): the elements once each, in an order the caller cannot
\* rely on - an enumeration of the set, begun at its (k+1)-th element
RECURSIVE Enumerate(_)
Enumerate(S) == IF S = {} THEN <<>> ELSE LET x == CHOOSE x \in S : TRUE IN <<x>> \o Enumerate(S \ {x})
ListOfSet(S, k) ==
  LET e == Enumerate(S)
      r == IF S = {} THEN 0 ELSE k % Cardinality(S)
  IN SubSeq(e, r + 1, Len(e)) \o SubSeq(e, 1, r)
SetOrders == {0, 1}

\* _determine_compliance_frameworks looking at the system type only
determine_compliance_frameworks_by_type(patch, k) ==
  LET system == patch.target_system
      by_data == IF system.type = "database" THEN <<"PCI-DSS", "HIPAA">> ELSE <<>>
      by_environment == IF system.environment = "production" THEN <<"SOX">> ELSE <<>>
      by_risk == IF patch.risk_score >= 70 THEN <<"ISO27001">> ELSE <<>>
  IN ListOfSet(Range(by_data \o by_environment \o by_risk), k)

\* _determine_compliance_frameworks
determine_compliance_frameworks(patch, k) ==
  LET system == patch.target_system
      by_data == IF system.type = "database" \/ "user_data" \in Range(system.affected_services) THEN <<"PCI-DSS", "HIPAA">> ELSE <<>>
      by_environment == IF system.environment = "production" THEN <<"SOX">> ELSE <<>>
      by_risk == IF patch.risk_score >= 70 THEN <<"ISO27001">> ELSE <<>>
  IN ListOfSet(Range(by_data \o by_environment \o by_risk), k)

\* all_requirements of _get_requirements_for_frameworks, before list(set(...))
RECURSIVE all_requirements(_)
all_requirements(frameworks) ==
  IF frameworks = <<>> THEN <<>>
  ELSE (IF Head(frameworks) \in DOMAIN compliance_frameworks THEN compliance_frameworks[Head(frameworks)].requirements ELSE <<>>) \o all_requirements(Tail(frameworks))

\* _get_requirements_for_frameworks returning all_requirements as collected
get_requirements_for_frameworks_extended(frameworks, k) == all_requirements(frameworks)

\* _get_requirements_for_frameworks
get_requirements_for_frameworks(frameworks, k) == ListOfSet(Range(all_requirements(frameworks)), k)

timeline_priority(timeline) ==
  CASE timeline = "within_30_days" -> 1 [] timeline = "within_60_days" -> 2 [] timeline = "within_90_days" -> 3 [] timeline = "risk_based" -> 4 [] OTHER -> 99

\* the loop of _get_strictest_timeline from the state (strictest,
\* strictest_priority) over the frameworks left
RECURSIVE StrictestFrom(_, _, _)
StrictestFrom(frameworks, strictest, strictest_priority) ==
  IF frameworks = <<>> THEN strictest
  ELSE LET timeline == compliance_frameworks[Head(frameworks)].patch_timeline
           priority == timeline_priority(timeline)
       IN IF Head(frameworks) \in DOMAIN compliance_frameworks /\ priority < strictest_priority
          THEN StrictestFrom(Tail(frameworks), timeline, priority)
          ELSE StrictestFrom(Tail(frameworks), strictest, strictest_priority)

\* _get_strictest_timeline keeping the timeline of the first framework
get_strictest_timeline_first(frameworks) ==
  IF frameworks = <<>> THEN "risk_based" ELSE compliance_frameworks[Head(frameworks)].patch_timeline

\* _get_strictest_timeline
get_strictest_timeline(frameworks) == StrictestFrom(frameworks, "risk_based", 99)

\* tag_compliance_requirements lines 42-64, for one patch
TaggedPatch(patch, k) ==
  LET applicable_frameworks == determine_compliance_frameworks(patch, k)
  IN [compliance_metadata |-> [applicable_frameworks |-> applicable_frameworks,
                               compliance_requirements |-> get_requirements_for_frameworks(applicable_frameworks, k),
                               documentation_needed |-> applicable_frameworks # <<>>,
                               max_timeline |-> get_strictest_timeline(applicable_frameworks)],
      audit_trail |-> [tagged_by |-> "AuditorAgent", version |-> "1.0"]] @@ patch

tag_compliance_requirements(scheduled_patches, k) == [i \in DOMAIN scheduled_patches |-> TaggedPatch(scheduled_patches[i], k)]

\* PatchSchedulerAgent() on an inventory, handed the assessments of phase 1
InitSchedule ==
  /\ approvals = <<>>
  /\ audit_log = <<>>
  /\ mongo_up = FALSE
  /\ decision_collection = <<>>
  /\ audit_collection = <<>>
  /\ uuid_seq = 0
  /\ tasks = <<>>
  /\ executions = <<>>
  /\ backend_calls = <<>>
  /\ reports = {}
  /\ resp = NoResp
  /\ nreq = 0
  /\ gen = NoGen
  /\ callers = <<>>
  /\ aud = NoAud
  /\ pipe \in {[NoPipe EXCEPT !.pc = "assessed", !.systems = inv, !.patch_risks = prs] : inv \in Inventories, prs \in PatchRiskLists}

\* PatchSchedulerAgent.run writing the duration into the assessments it reads
MapPatches_in_place ==
  /\ pipe.pc = "assessed"
  /\ pipe' = [pipe EXCEPT !.pc = "scheduled",
                          !.scheduled_patches = map_patches_to_systems(pipe.patch_risks, pipe.systems),
                          !.patch_risks = [i \in DOMAIN @ |-> [estimated_duration |-> estimate_duration(@[i].severity)] @@ @[i]]]
  /\ UNCHANGED <<approvals, audit_log, mongo_up, decision_collection, audit_collection, uuid_seq, tasks, executions, backend_calls, reports, resp, nreq, gen, callers, aud>>

\* PatchSchedulerAgent.run
MapPatches ==
  /\ pipe.pc = "assessed"
  /\ pipe' = [pipe EXCEPT !.pc = "scheduled", !.scheduled_patches = map_patches_to_systems(pipe.patch_risks, pipe.systems)]
  /\ UNCHANGED <<approvals, audit_log, mongo_up, decision_collection, audit_collection, uuid_seq, tasks, executions, backend_calls, reports, resp, nreq, gen, callers, aud>>

\* AuditorAgent.run line 184
TagPatches(k) ==
  /\ pipe.pc = "scheduled"
  /\ pipe' = [pipe EXCEPT !.pc = "tagged", !.tagged_patches = tag_compliance_requirements(pipe.scheduled_patches, k)]
  /\ UNCHANGED <<approvals, audit_log, mongo_up, decision_collection, audit_collection, uuid_seq, tasks, executions, backend_calls, reports, resp, nreq, gen, callers, aud>>

TagCompliance == \E k \in SetOrders : TagPatches(k)

NextSchedule ==
  \/ MapPatches
  \/ TagCompliance

SpecSchedule == InitSchedule /\ [][NextSchedule]_vars

\* ------------------------------------------------------------- reading the approval store
\* POST /api/approval/request at the clock reading t
create_approval_request_at(patch_plan, requester, t) ==
  /\ Len(approvals) < MaxApprovals
  /\ nreq' = nreq + 1
  /\ LET approval_id == Len(approvals) + 1
         log_entry == Stamped(UserActionEntry(uuid_seq + 1, requester, "create_approval_request", approval_id), t)
     IN /\ approvals' = Append(approvals, [NewApprovalRequest(approval_id, patch_plan, requester) EXCEPT !.created_at = isoformat(t)])
        /\ uuid_seq' = uuid_seq + 1
        /\ audit_log' = save_to_file(audit_log, log_entry)
        /\ audit_collection' = save_to_mongodb(audit_collection, log_entry)
        /\ resp' = Response("request", 200, "Approval request created successfully", approval_id, Absent, <<>>)
  /\ UNCHANGED <<mongo_up, decision_collection, tasks, executions, backend_calls, reports, gen, callers, aud, pipe>>

\* approval_store_path.glob("approval_*.json"): the files, in an order the
\* file system chooses
ApprovalGlobOrders == {o \in [DOMAIN approvals -> DOMAIN approvals] : \A i, j \in DOMAIN approvals : o[i] = o[j] => i = j}

\* list.sort(key=lambda x: x["created_at"]): stable, smallest key first
RECURSIVE sort_by_created_at(_)
sort_by_created_at(l) ==
  IF l = <<>> THEN <<>>
  ELSE LET x == Last(l)
           rest == sort_by_created_at(SubSeq(l, 1, Len(l) - 1))
           n == Cardinality({i \in DOMAIN rest : ~StrLess(x.created_at, rest[i].created_at)})
       IN SubSeq(rest, 1, n) \o <<x>> \o SubSeq(rest, n + 1, Len(rest))

\* list.sort(key=lambda x: x["created_at"], reverse=True): stable, largest
\* key first
RECURSIVE sort_by_created_at_reverse(_)
sort_by_created_at_reverse(l) ==
  IF l = <<>> THEN <<>>
  ELSE LET x == Last(l)
           rest == sort_by_created_at_reverse(SubSeq(l, 1, Len(l) - 1))
           n == Cardinality({i \in DOMAIN rest : ~StrLess(rest[i].created_at, x.created_at)})
       IN SubSeq(rest, 1, n) \o <<x>> \o SubSeq(rest, n + 1, Len(rest))

\* list_pending_approvals sorting without reverse=True
list_pending_approvals_oldest_first(store, order) ==
  sort_by_created_at(SelectSeq([i \in DOMAIN order |-> store[order[i]]], LAMBDA approval : approval.status = "pending"))

\* HumanApprovalAgent.list_pending_approvals
list_pending_approvals(store, order) ==
  sort_by_created_at_reverse(SelectSeq([i \in DOMAIN order |-> store[order[i]]], LAMBDA approval : approval.status = "pending"))

\* HumanApprovalAgent.get_approval_statistics
get_approval_statistics(store) ==
  [total_requests |-> Len(store),
   pending |-> Cardinality({i \in DOMAIN store : store[i].status = "pending"}),
   approved |-> Cardinality({i \in DOMAIN store : store[i].status = "approved"}),
   rejected |-> Cardinality({i \in DOMAIN store : store[i].status = "rejected"}),
   changes_requested |-> Cardinality({i \in DOMAIN store : store[i].status = "changes_requested"})]

\* the date_range of api_server.py get_system_status, and a shorter one
DateRanges == {1, 7}

\* datetime.now().replace(day=max(1, datetime.now().day - date_range))
cutoff_date(now, date_range) == [now EXCEPT !.day = IF now.day - date_range > 1 THEN now.day - date_range ELSE 1]

\* AuditLoggerAgent.get_decision_statistics: a file that does not parse is
\* reported on the console and skipped
get_decision_statistics(date_range, now) ==
  LET counted == {i \in DOMAIN audit_log : /\ audit_log[i].file \notin aud.corrupt
                                           /\ audit_log[i].event_type = "approval_decision"
                                           /\ NotLater(cutoff_date(now, date_range), fromisoformat(audit_log[i].timestamp))}
  IN [total_decisions |-> Cardinality(counted),
      approved |-> Cardinality({i \in counted : audit_log[i].decision = "approved"}),
      rejected |-> Cardinality({i \in counted : audit_log[i].decision = "rejected"}),
      changes_requested |-> Cardinality({i \in counted : audit_log[i].decision = "changes_requested"}),
      pending |-> Cardinality({i \in counted : audit_log[i].decision = "pending"}),
      decisions_by_user |-> [u \in {audit_log[i].approver : i \in counted} |-> Cardinality({i \in counted : audit_log[i].approver = u})],
      decisions_by_day |-> [d \in {audit_log[i].timestamp[1] : i \in counted} |-> Cardinality({i \in counted : audit_log[i].timestamp[1] = d})]]

\* routers/approval_router.py get_pending_approvals: GET /api/approval/pending
get_pending_approvals(order) ==
  /\ nreq' = nreq + 1
  /\ resp' = Response("pending", 200, "", UnknownId, Absent, list_pending_approvals(approvals, order))
  /\ UNCHANGED <<approvals, audit_log, mongo_up, decision_collection, audit_collection, uuid_seq, tasks, executions, backend_calls, reports, gen, callers, aud, pipe>>

\* get_approval_details recording the view in the audit log
get_approval_details_logged(approval_id) ==
  /\ nreq' = nreq + 1
  /\ resp' = IF Exists(approval_id)
             THEN Response("details", 200, "", approval_id, Absent, <<approvals[approval_id]>>)
             ELSE Response("details", 404, "Approval request not found", approval_id, Absent, <<>>)
  /\ uuid_seq' = uuid_seq + 1
  /\ audit_log' = save_to_file(audit_log, UserActionEntry(uuid_seq + 1, "system", "view_approval", approval_id))
  /\ UNCHANGED <<approvals, mongo_up, decision_collection, audit_collection, tasks, executions, backend_calls, reports, gen, callers, aud, pipe>>

\* routers/approval_router.py get_approval_details: GET /api/approval/{id}
get_approval_details(approval_id) ==
  /\ nreq' = nreq + 1
  /\ resp' = IF Exists(approval_id)
             THEN Response("details", 200, "", approval_id, Absent, <<approvals[approval_id]>>)
             ELSE Response("details", 404, "Approval request not found", approval_id, Absent, <<>>)
  /\ UNCHANGED <<approvals, audit_log, mongo_up, decision_collection, audit_collection, uuid_seq, tasks, executions, backend_calls, reports, gen, callers, aud, pipe>>

\* routers/approval_router.py get_approval_statistics:
\* GET /api/approval/statistics/overview
GetApprovalStatistics ==
  /\ nreq < MaxRequests
  /\ nreq' = nreq + 1
  /\ resp' = Response("statistics", 200, "", UnknownId, Absent, <<get_approval_statistics(approvals)>>)
  /\ UNCHANGED <<approvals, audit_log, mongo_up, decision_collection, audit_collection, uuid_seq, tasks, executions, backend_calls, reports, gen, callers, aud, pipe>>

\* a call of AuditLoggerAgent.get_decision_statistics at the clock reading now
\* (the arguments of the call are kept next to its result)
decision_statistics(date_range, now) ==
  /\ nreq' = nreq + 1
  /\ resp' = Response("decision_statistics", 200, "", UnknownId, Absent, <<get_decision_statistics(date_range, now), [date_range |-> date_range, now |-> now]>>)
  /\ UNCHANGED <<approvals, audit_log, mongo_up, decision_collection, audit_collection, uuid_seq, tasks, executions, backend_calls, reports, gen, callers, aud, pipe>>

ReadCreate == nreq < MaxRequests /\ \E requester \in Requesters, t \in Times : create_approval_request_at([audit_id |-> "p1", pre_checks |-> <<>>], requester, t)
GetPendingApprovals == nreq < MaxRequests /\ \E order \in ApprovalGlobOrders : get_pending_approvals(order)
GetApprovalDetails == nreq < MaxRequests /\ \E approval_id \in ApprovalIds \cup {UnknownId} : get_approval_details(approval_id)
GetDecisionStatistics == nreq < MaxRequests /\ \E date_range \in DateRanges, now \in Times : decision_statistics(date_range, now)

NextRead ==
  \/ ReadCreate
  \/ MakeApprovalDecision
  \/ GetPendingApprovals
  \/ GetApprovalDetails
  \/ GetApprovalStatistics
  \/ GetDecisionStatistics

SpecRead == Init /\ [][NextRead]_vars

\* ------------------------------------------------------------- _calculate_schedule_time
\* datetime.now() at the call: the day as an ordinal and the hour of the day
\* (minutes and below are carried through the addition unchanged)
BaseTimes == {[day |-> 1, hour |-> 0], [day |-> 1, hour |-> 23], [day |-> 2, hour |-> 12]}

\* base_time + timedelta(hours=h), base_time + timedelta(days=d)
plus_hours(t, h) == [day |-> t.day + ((t.hour + h) \div 24), hour |-> (t.hour + h) % 24]
plus_days(t, d) == [day |-> t.day + d, hour |-> t.hour]

\* datetime.isoformat(): "DDTHH", the fields zero-padded to two digits
isoformat_hours(t) == <<48 + (t.day \div 10), 48 + (t.day % 10), 84, 48 + (t.hour \div 10), 48 + (t.hour % 10)>>

\* random.randint(a, b) of the three branches
Draws(risk_score) == IF risk_score >= 80 THEN 1 .. 24 ELSE IF risk_score >= 60 THEN 24 .. 72 ELSE 1 .. 7

\* _calculate_schedule_time adding days in every branch
calculate_schedule_time_in_days(base_time, risk_score, draw) == isoformat_hours(plus_days(base_time, draw))

\* PatchSchedulerAgent._calculate_schedule_time, draw the value of randint
calculate_schedule_time(base_time, risk_score, draw) ==
  IF risk_score >= 80 THEN isoformat_hours(plus_hours(base_time, draw))
  ELSE IF risk_score >= 60 THEN isoformat_hours(plus_hours(base_time, draw))
  ELSE isoformat_hours(plus_days(base_time, draw))

\* an assessment of phase 1 about to be scheduled at base_time
InitWindow ==
  /\ approvals = <<>>
  /\ audit_log = <<>>
  /\ mongo_up = FALSE
  /\ decision_collection = <<>>
  /\ audit_collection = <<>>
  /\ uuid_seq = 0
  /\ tasks = <<>>
  /\ executions = <<>>
  /\ backend_calls = <<>>
  /\ reports = {}
  /\ resp = NoResp
  /\ nreq = 0
  /\ gen = NoGen
  /\ callers = <<>>
  /\ aud = NoAud
  /\ pipe \in {[NoPipe EXCEPT !.pc = "assessed", !.base_time = t,
                              !.assessment = score_patch([id |-> 1, severity |-> sev], dep, rb, FALSE, "answers")] :
                 t \in BaseTimes, sev \in Severities, dep \in DependencyRisks, rb \in RollbackDifficulties}

\* map_patches_to_systems line 106, for one patch
CalculateScheduleTime ==
  /\ pipe.pc = "assessed"
  /\ \E draw \in Draws(pipe.assessment.risk_score) :
       pipe' = [pipe EXCEPT !.pc = "timed", !.scheduled_time = calculate_schedule_time(pipe.base_time, pipe.assessment.risk_score, draw)]
  /\ UNCHANGED <<approvals, audit_log, mongo_up, decision_collection, audit_collection, uuid_seq, tasks, executions, backend_calls, reports, resp, nreq, gen, callers, aud>>

NextWindow == CalculateScheduleTime

SpecWindow == InitWindow /\ [][NextWindow]_vars

\* ============================================================= claims

\* the approved approvals that reference a plan
ApprovedFor(plan_id) == {a \in DOMAIN approvals : approvals[a].patch_plan_id = plan_id /\ approvals[a].status = "approved"}

\* C1: PatchExecutor.execute is entered for a plan only when, at that moment,
\* an ApprovalRequest referencing the plan exists with status approved -
\* through run_patches and through generate_patch_plan alike.
C1_ExecuteOnlyWhenApproved ==
  [][Len(executions') > Len(executions) => ApprovedFor(Get(Last(executions').plan_id, "unknown")) # {}]_vars

\* C2: an execute request on an existing approval that is pending, rejected or
\* changes_requested is answered with an error, schedules no task, calls the
\* backend not at all and leaves both audit sinks as they were.
C2_ExecuteUnapprovedHasNoEffect ==
  [][\A a \in DOMAIN approvals :
       (nreq' = nreq + 1 /\ resp'.op = "execute" /\ resp'.approval_id = a /\ approvals[a].status \in {"pending", "rejected", "changes_requested"})
       => (/\ resp'.code >= 400
           /\ tasks' = tasks
           /\ executions' = executions
           /\ backend_calls' = backend_calls
           /\ reports' = reports
           /\ audit_log' = audit_log
           /\ audit_collection' = audit_collection
           /\ decision_collection' = decision_collection)]_vars

C2_Witness ==
  /\ resp.op = "execute" /\ resp.code >= 400
  /\ Exists(resp.approval_id)
  /\ approvals[resp.approval_id].status = "changes_requested"
  /\ tasks = <<>> /\ backend_calls = <<>>

\* C3: two concurrent decisions on one approval are linearized: once both
\* calls have completed, decision_history holds both records, the second
\* one's previous_status is the first one's new_status, and each call's
\* comment is in comments.
C3_ConcurrentDecisionsLinearized ==
  \A c, d \in DOMAIN callers :
    (c # d /\ callers[c].pc = "done" /\ callers[d].pc = "done" /\ callers[c].approval_id = callers[d].approval_id)
    => LET approval == approvals[callers[c].approval_id]
           history == approval.decision_history
       IN /\ Len(history) = Cardinality({e \in DOMAIN callers : callers[e].pc \in {"saved", "done"} /\ callers[e].approval_id = callers[c].approval_id})
          /\ \A i \in 2 .. Len(history) : history[i].previous_status = history[i - 1].new_status
          /\ \E i \in DOMAIN history : history[i].approver = callers[c].approver /\ history[i].new_status = callers[c].decision
          /\ callers[c].comments # "" => \E i \in DOMAIN approval.comments : approval.comments[i].author = callers[c].approver

\* C4: n successful decisions on an approval, one after the other, leave n
\* records in call order: a new approval starts pending with no history, a
\* successful decision appends exactly one record whose previous_status is
\* pending for the first and the preceding record's new_status afterwards,
\* and no step changes or removes an earlier record.
C4_SequentialDecisionsChain ==
  [][\A a \in DOMAIN approvals' :
       LET new == approvals'[a].decision_history
       IN IF a \notin DOMAIN approvals
          THEN new = <<>> /\ approvals'[a].status = "pending"
          ELSE LET old == approvals[a].decision_history
               IN IF nreq' = nreq + 1 /\ resp'.op = "decision" /\ resp'.code = 200 /\ resp'.approval_id = a
                  THEN /\ Len(new) = Len(old) + 1
                       /\ SubSeq(new, 1, Len(old)) = old
                       /\ Last(new).new_status = resp'.decision
                       /\ Last(new).previous_status = (IF old = <<>> THEN "pending" ELSE Last(old).new_status)
                  ELSE new = old]_vars

C4_Witness ==
  \E a \in DOMAIN approvals :
    LET history == approvals[a].decision_history
    IN /\ Len(history) >= 2
       /\ history[1].previous_status = "pending"
       /\ history[1].new_status = "changes_requested"
       /\ history[2].previous_status = "changes_requested"
       /\ history[2].new_status = "approved"

\* C5: a decision on an approval_id that does not exist is answered 404 and
\* changes nothing: no approval is created or modified and neither audit sink
\* gets an entry.
C5_DecideUnknownChangesNothing ==
  [][(nreq' = nreq + 1 /\ resp'.op = "decision" /\ ~Exists(resp'.approval_id))
       => (/\ resp'.code = 404
           /\ approvals' = approvals
           /\ audit_log' = audit_log
           /\ decision_collection' = decision_collection
           /\ audit_collection' = audit_collection)]_vars

C5_Witness ==
  /\ resp.op = "decision" /\ resp.code = 404 /\ ~Exists(resp.approval_id)
  /\ approvals # <<>> /\ audit_log # <<>>

\* C6: no decision sets the status to pending: a status that has left pending
\* is never pending again.
C6_NeverBackToPending ==
  [][\A a \in DOMAIN approvals : approvals[a].status # "pending" => approvals'[a].status # "pending"]_vars

\* the failing pre-checks: an expected substring is set and the output lacks it
\* (a failed command has no output at all)
FailedChecks == {i \in DOMAIN gen.check_results : PreCheckRaises(gen.plan.pre_checks[i], gen.check_results[i])}

\* C7: pre-checks run in list order, and the first one whose output lacks its
\* expected substring ends the operation: it is the last pre-check run, no
\* remediation command runs and no execution report is attached.
C7_PreCheckAbortsOnFirstFailure ==
  /\ SelectSeq(backend_calls, LAMBDA b : b.kind = "precheck") \in
       {[i \in 1 .. n |-> BackendCall("generate_patch_plan", "precheck", gen.plan.pre_checks[i].command)] : n \in {m \in 0 .. Len(gen.plan.pre_checks) : m \in {Len(gen.check_results), Len(gen.check_results) + 1}}}
  /\ \A i \in FailedChecks :
       /\ i = Len(gen.check_results)
       /\ gen.pc = "raised"
       /\ executions = <<>>
       /\ \A j \in DOMAIN backend_calls : backend_calls[j].kind # "remediation"
       /\ ~gen.report

C7_Witness ==
  /\ gen.pc = "raised"
  /\ Len(gen.plan.pre_checks) = 2
  /\ Len(gen.check_results) = 1
  /\ gen.check_results[1].has_output /\ gen.check_results[1].output = <<"k", "o">>
  /\ FailedChecks = {1}

\* C8: once an execute request was acknowledged and the remediation commands
\* of its run have all completed, the run ends with an ExecutionReport for the
\* approval_id persisted where a later read finds it.
C8_ReportPersistedWhenRunEnds ==
  \A k \in DOMAIN tasks :
    (tasks[k].pc = "done" /\ Len(tasks[k].results) = Len(cmds))
    => \E r \in reports : r.approval_id = tasks[k].approval_id

\* C9: the execute request on an approved approval answers 'Execution started'
\* without waiting for remediation: the step that answers runs no command and
\* returns no results, and a command of a run starts only in a later step, for
\* a task the answer has already scheduled.
C9_AcknowledgedBeforeRemediation ==
  [][/\ (nreq' = nreq + 1 /\ resp'.op = "execute")
          => (/\ backend_calls' = backend_calls
              /\ executions' = executions
              /\ resp'.results = <<>>
              /\ resp'.code = 200 => (/\ resp'.detail = "Execution started"
                                       /\ Len(tasks') = Len(tasks) + 1
                                       /\ Last(tasks') = NewTask(resp'.approval_id, approvals[resp'.approval_id].patch_plan)))
     /\ (backend_calls' # backend_calls \/ executions' # executions)
          => (/\ nreq' = nreq
              /\ \E k \in DOMAIN tasks : tasks[k].pc \in {"started", "running"} /\ tasks'[k] # tasks[k])]_vars

C9_Witness ==
  /\ resp.op = "execute" /\ resp.code = 200 /\ resp.results = <<>>
  /\ \E k \in DOMAIN tasks : tasks[k].approval_id = resp.approval_id /\ tasks[k].pc = "executed"
  /\ backend_calls # <<>>

\* C10: for every approval_id at most one execution is run and at most one
\* ExecutionReport is created, however many execute requests are submitted.
C10_AtMostOneExecution ==
  \A a \in DOMAIN approvals :
    /\ Cardinality({i \in DOMAIN executions : executions[i].approval_id = a}) <= 1
    /\ Cardinality({r \in reports : r.approval_id = a}) <= 1

\* a get_audit_trail call has returned its list
TrailReturned == aud.result.op = "get_audit_trail" /\ aud.result.status = "returned"

\* C11: get_audit_trail(resource_id) never returns two entries with the same
\* log_id, even when the entry was written to the file log and to MongoDB.
C11_TrailHasNoDuplicateLogId ==
  TrailReturned =>
    \A i, j \in DOMAIN aud.result.trail : aud.result.trail[i].log_id = aud.result.trail[j].log_id => i = j

\* C12: the list get_audit_trail returns is in non-decreasing timestamp order,
\* whatever the order of the appends and whichever sink or daily file an
\* entry comes from.
C12_TrailSortedByTimestamp ==
  TrailReturned =>
    \A i \in 1 .. (Len(aud.result.trail) - 1) :
      NotLater(fromisoformat(aud.result.trail[i].timestamp), fromisoformat(aud.result.trail[i + 1].timestamp))

\* a trail of three entries from two daily files and from MongoDB, whose first
\* entry was appended after its second
C12_Witness ==
  /\ TrailReturned
  /\ Len(aud.result.trail) = 3
  /\ aud.result.trail[1].log_id > aud.result.trail[2].log_id
  /\ aud.result.trail[1].timestamp # aud.result.trail[2].timestamp
  /\ \E i, j \in DOMAIN aud.result.trail : aud.result.trail[i].file # aud.result.trail[j].file
  /\ \E i \in DOMAIN aud.result.trail : aud.result.trail[i].event_type = "user_action"
  /\ \E i \in DOMAIN aud.result.trail : aud.result.trail[i].event_type = "approval_decision"

\* an entry is linked to resource_id
LinkedTo(e, resource_id) == e.approval_id = resource_id \/ e.patch_plan_id = resource_id \/ e.resource_id = resource_id

\* C13: get_audit_trail(resource_id) returns every entry ever appended that is
\* linked to resource_id as approval_id, patch_plan_id or resource_id, for
\* every event type, with or without the secondary sink.
C13_TrailIsComplete ==
  TrailReturned =>
    \A k \in DOMAIN aud.appended :
      LinkedTo(aud.appended[k], aud.result.resource_id) =>
        \E i \in DOMAIN aud.result.trail : aud.result.trail[i].log_id = aud.appended[k].log_id

\* s is a prefix of t
IsPrefix(s, t) == Len(s) <= Len(t) /\ \A i \in DOMAIN s : t[i] = s[i]

\* C14: the audit log is append-only - across every append (log_approval_decision,
\* log_patch_plan_generation, log_user_action, AuditorAgent.log_audit_entry)
\* each daily file keeps the entries it had, unchanged and in place, and the
\* log grows by at most one entry.
C14_AuditLogAppendOnly ==
  [][/\ \A day \in FileDays : IsPrefix(FileLogs(audit_log, day), FileLogs(audit_log', day))
     /\ Len(audit_log') <= Len(audit_log) + 1]_vars

\* the last call was one of the three log_* methods
LogMethods == {"log_approval_decision", "log_patch_plan_generation", "log_user_action"}

\* the primary log holds the entry with this log_id
InPrimary(log, log_id) == \E i \in DOMAIN log : log[i].event_type # Absent /\ log[i].log_id = log_id

\* C16: a log_* method returns its log_id only after the primary file write
\* succeeded; the secondary sink is written only after the primary; when the
\* primary write fails the method does not return and nothing reaches the
\* secondary sink.
C16_PrimaryBeforeSecondary ==
  [][(aud'.nops = aud.nops + 1 /\ aud'.result.op \in LogMethods) =>
       /\ aud'.result.status = "returned" => (aud'.result.primary = "written" /\ InPrimary(audit_log', aud'.result.log_id))
       /\ (decision_collection' # decision_collection \/ audit_collection' # audit_collection) => (aud'.result.primary = "written" /\ InPrimary(audit_log', (IF decision_collection' # decision_collection THEN Last(decision_collection') ELSE Last(audit_collection')).log_id))
       /\ aud'.result.primary # "written" => (aud'.result.status = "raised" /\ decision_collection' = decision_collection /\ audit_collection' = audit_collection)]_vars

\* a log_* call whose file write failed while MongoDB was reachable: it
\* raised, and the collections are as empty as before
C16_Witness ==
  /\ aud.result.op \in LogMethods
  /\ aud.result.primary \in {"open_raises", "dump_raises"}
  /\ aud.result.status = "raised"
  /\ mongo_up
  /\ aud.nops = 1
  /\ decision_collection = <<>>
  /\ audit_collection = <<>>

\* C18: a failure to read or write audit state, primary or secondary, during
\* an append or a query is surfaced to the caller: no call returns normally
\* after an exception was caught and dropped inside it.
C18_NoFailureSwallowed ==
  aud.result.status = "returned" => aud.result.swallowed = {}

\* C15: concurrent appends are safe - when two writers append at the same
\* time, every entry whose append has returned is in the primary log, under
\* every interleaving of their steps.
C15_ConcurrentAppendsKept ==
  \A k \in DOMAIN aud.appended :
    (\A w \in DOMAIN aud.writers : aud.writers[w].pc \in {"idle", "done"}) => InPrimary(audit_log, aud.appended[k].log_id)

\* the approval_decision entries of the primary log linked to an approval
DecisionEntriesOf(approval_id) == SelectSeq(audit_log, LAMBDA e : e.event_type = "approval_decision" /\ e.approval_id = approval_id)

\* C17: every status transition is recorded - once a decide call has returned,
\* with a result or with an error, the approval_decision entries linked to an
\* approval_id are as many as the records of its decision_history, and the
\* i-th entry carries the decision and the approver of the i-th record.
C17_EveryDecisionAudited ==
  \A a \in DOMAIN approvals :
    /\ Len(DecisionEntriesOf(a)) = Len(approvals[a].decision_history)
    /\ \A i \in DOMAIN DecisionEntriesOf(a) :
         /\ DecisionEntriesOf(a)[i].decision = approvals[a].decision_history[i].new_status
         /\ DecisionEntriesOf(a)[i].approver = approvals[a].decision_history[i].approver

\* C19: execute reports its two rejections apart - an unknown approval_id as
\* NotFound (404), an existing approval that is not approved as
\* InvalidStateTransition (409); neither comes back as an internal error.
C19_ExecuteRejectionsDistinct ==
  resp.op = "execute" =>
    /\ resp.detail = "Approval not found" => resp.code = 404
    /\ resp.detail = "Plan not approved" => resp.code = 409

\* C20: ApprovalRequests are 1:1 with plans - after any sequence of submits
\* (POST /patch-plan, POST /api/approval/request), the same plan sent more
\* than once included, no two ApprovalRequests share a patch_plan_id.
C20_OneApprovalPerPlan ==
  \A a, b \in DOMAIN approvals : approvals[a].patch_plan_id = approvals[b].patch_plan_id => a = b

\* the severities in the order of the claim, lowest last
SeverityRanks == <<"critical", "high", "medium", "low", "info">>

\* the score the claim gives: base 90/75/50/30/10, +0/+5/+10, +0/+2/+5, at most 100
ClaimedScore(severity, dependency_risk, rollback_difficulty) ==
  LET base == IF severity = "critical" THEN 90 ELSE IF severity = "high" THEN 75 ELSE IF severity = "medium" THEN 50 ELSE IF severity = "low" THEN 30 ELSE 10
      dep == IF dependency_risk = "low" THEN 0 ELSE IF dependency_risk = "medium" THEN 5 ELSE 10
      rb == IF rollback_difficulty = "easy" THEN 0 ELSE IF rollback_difficulty = "moderate" THEN 2 ELSE 5
  IN IF base + dep + rb <= 100 THEN base + dep + rb ELSE 100

\* C22: for every severity and every pair of modifiers the score is
\* min(base + dep + rb, 100); it lies in 0..100 and, the modifiers being equal,
\* critical > high > medium > low > anything else.
C22_ScoreFormulaAndOrder ==
  pipe.pc = "scored" =>
    LET a == pipe.assessment
    IN /\ a.risk_score = ClaimedScore(a.severity, a.dependency_risk, a.rollback_difficulty)
       /\ a.risk_score \in 0 .. 100
       /\ \A i \in 1 .. (Len(SeverityRanks) - 1) :
            score_patch([id |-> 0, severity |-> SeverityRanks[i]], a.dependency_risk, a.rollback_difficulty, FALSE, "answers").risk_score
              > score_patch([id |-> 0, severity |-> SeverityRanks[i + 1]], a.dependency_risk, a.rollback_difficulty, FALSE, "answers").risk_score

\* a critical CVE scored with the largest modifiers: the sum 105 is capped
C22_Witness ==
  /\ pipe.pc = "scored"
  /\ pipe.assessment.severity = "critical"
  /\ pipe.assessment.dependency_risk = "high"
  /\ pipe.assessment.rollback_difficulty = "hard"
  /\ pipe.assessment.risk_score = 100

\* C23: a failure of the reasoning service never fails scoring - score_patch
\* returns, with the risk_score, severity and modifiers it has when the call
\* succeeds, and with an error marker as the justification.
C23_ReasonerFailureIsNotFatal ==
  pipe.llm = "raises" =>
    /\ pipe.pc = "scored"
    /\ pipe.assessment = [score_patch(pipe.cve, pipe.assessment.dependency_risk, pipe.assessment.rollback_difficulty, TRUE, "answers") EXCEPT !.llm_reasoning = "[LLM Error]"]
    /\ pipe.assessment.risk_score = ClaimedScore(pipe.assessment.severity, pipe.assessment.dependency_risk, pipe.assessment.rollback_difficulty)

\* a high-severity CVE scored while the reasoner's call failed
C23_Witness ==
  /\ pipe.pc = "scored"
  /\ pipe.use_llm
  /\ pipe.llm = "raises"
  /\ pipe.assessment.risk_score = 90
  /\ pipe.assessment.llm_reasoning = "[LLM Error]"

\* the environments the specification allows for a severity
AllowedEnvironments(severity) ==
  IF severity \in {"critical", "high", "medium"} THEN {"production", "staging"} ELSE {"development", "staging"}

PatchesFor(patch_risk, system) ==
  {n \in DOMAIN pipe.scheduled_patches : pipe.scheduled_patches[n].cve_id = patch_risk.cve_id /\ pipe.scheduled_patches[n].target_system = system}

\* C24: the scheduler emits exactly one scheduled patch for every pair of an
\* assessment and a system whose environment is production or staging when
\* the severity is critical, high or medium, and development or staging when
\* it is low; it emits none for any other pair, so a critical assessment
\* reaches every production system.
C24_OnePatchPerEligiblePair ==
  pipe.pc \in {"scheduled", "tagged"} =>
    /\ \A i \in DOMAIN pipe.patch_risks : \A j \in DOMAIN pipe.systems :
         pipe.patch_risks[i].severity \in {"critical", "high", "medium", "low"} =>
           Cardinality(PatchesFor(pipe.patch_risks[i], pipe.systems[j])) =
             (IF pipe.systems[j].environment \in AllowedEnvironments(pipe.patch_risks[i].severity) THEN 1 ELSE 0)
    /\ \A n \in DOMAIN pipe.scheduled_patches :
         \E i \in DOMAIN pipe.patch_risks : \E j \in DOMAIN pipe.systems :
           /\ pipe.scheduled_patches[n].cve_id = pipe.patch_risks[i].cve_id
           /\ pipe.scheduled_patches[n].severity = pipe.patch_risks[i].severity
           /\ pipe.scheduled_patches[n].target_system = pipe.systems[j]

C24_Witness ==
  /\ pipe.pc = "scheduled"
  /\ Len(pipe.scheduled_patches) = 2
  /\ \E i \in DOMAIN pipe.patch_risks : pipe.patch_risks[i].severity = "critical"
  /\ \E i \in DOMAIN pipe.patch_risks : pipe.patch_risks[i].severity = "low"
  /\ \E j \in DOMAIN pipe.systems : pipe.systems[j].environment = "production"
  /\ \E j \in DOMAIN pipe.systems : pipe.systems[j].environment = "development"
  /\ \E n \in DOMAIN pipe.scheduled_patches : pipe.scheduled_patches[n].severity = "critical" /\ pipe.scheduled_patches[n].target_system.environment = "production"

\* the requirements of the frameworks a tagged patch lists as applicable
RequirementsOf(frameworks) == UNION {Range(compliance_frameworks[frameworks[i]].requirements) : i \in DOMAIN frameworks}

\* C25: the compliance requirement list of a tagged patch holds every
\* requirement of every triggered framework, each exactly once, and nothing
\* else: a requirement two frameworks share is listed once.
C25_RequirementsAreTheUnion ==
  pipe.pc = "tagged" =>
    \A n \in DOMAIN pipe.tagged_patches :
      LET metadata == pipe.tagged_patches[n].compliance_metadata
      IN /\ Range(metadata.compliance_requirements) = RequirementsOf(metadata.applicable_frameworks)
         /\ Len(metadata.compliance_requirements) = Cardinality(RequirementsOf(metadata.applicable_frameworks))

C25_Witness ==
  /\ pipe.pc = "tagged"
  /\ \E n \in DOMAIN pipe.tagged_patches :
       LET metadata == pipe.tagged_patches[n].compliance_metadata
       IN /\ {"PCI-DSS", "SOX"} \subseteq Range(metadata.applicable_frameworks)
          /\ Cardinality({i \in DOMAIN metadata.compliance_requirements : metadata.compliance_requirements[i] = "access_controls"}) = 1
          /\ Len(metadata.compliance_requirements) = 7

\* strictness as the specification orders it, strictest first
TimelineOrder == <<"within_30_days", "within_60_days", "within_90_days", "risk_based">>
TimelineRank(timeline) == CHOOSE r \in DOMAIN TimelineOrder : TimelineOrder[r] = timeline
TimelinesOf(frameworks) == {compliance_frameworks[frameworks[i]].patch_timeline : i \in DOMAIN frameworks}

\* C26: max_timeline of a tagged patch is the strictest timeline among the
\* triggered frameworks under within_30_days < within_60_days <
\* within_90_days < risk_based, and risk_based when none is triggered.
C26_MaxTimelineIsStrictest ==
  pipe.pc = "tagged" =>
    \A n \in DOMAIN pipe.tagged_patches :
      LET metadata == pipe.tagged_patches[n].compliance_metadata
          timelines == TimelinesOf(metadata.applicable_frameworks)
      IN IF timelines = {}
         THEN metadata.max_timeline = "risk_based"
         ELSE /\ metadata.max_timeline \in timelines
              /\ \A t \in timelines : TimelineRank(metadata.max_timeline) <= TimelineRank(t)

C26_Witness ==
  /\ pipe.pc = "tagged"
  /\ \E n \in DOMAIN pipe.tagged_patches :
       LET metadata == pipe.tagged_patches[n].compliance_metadata
       IN /\ Len(metadata.applicable_frameworks) >= 2
          /\ metadata.applicable_frameworks[1] # "PCI-DSS"
          /\ metadata.max_timeline = "within_30_days"
  /\ \E n \in DOMAIN pipe.tagged_patches :
       LET metadata == pipe.tagged_patches[n].compliance_metadata
       IN metadata.applicable_frameworks = <<>> /\ metadata.max_timeline = "risk_based"

ReadOps == {"pending", "details", "statistics", "decision_statistics"}

\* C21: get_approval_statistics, get_decision_statistics,
\* list_pending_approvals and get_approval_request are read-only: a call of
\* any of them leaves every approval record and every audit entry, in the
\* files and in the collections, as it was.
C21_ReadsChangeNothing ==
  [][(nreq' = nreq + 1 /\ resp'.op \in ReadOps) => UNCHANGED <<approvals, audit_log, decision_collection, audit_collection, aud>>]_vars

C21_Witness ==
  /\ resp.op = "decision_statistics"
  /\ resp.results[1].total_decisions >= 1
  /\ Len(approvals) >= 1
  /\ Len(audit_log) >= 2

\* C27: list_pending_approvals returns exactly the requests whose status is
\* pending, each once, the newest created_at first; a request that has been
\* decided is not in the list.
C27_PendingNewestFirst ==
  resp.op = "pending" =>
    /\ Range(resp.results) = {approvals[i] : i \in {j \in DOMAIN approvals : approvals[j].status = "pending"}}
    /\ Len(resp.results) = Cardinality({j \in DOMAIN approvals : approvals[j].status = "pending"})
    /\ \A i, j \in DOMAIN resp.results :
         i < j => NotLater(fromisoformat(resp.results[j].created_at), fromisoformat(resp.results[i].created_at))

C27_Witness ==
  /\ resp.op = "pending"
  /\ Len(resp.results) = 2
  /\ resp.results[1].created_at # resp.results[2].created_at
  /\ resp.results[1].approval_id = 2
  /\ StrLess(resp.results[2].created_at, resp.results[1].created_at)

C29_DecisionAppendsOneRecord ==
  [][(nreq' = nreq + 1 /\ resp'.op = "decision" /\ resp'.code = 200) =>
       LET before == approvals[resp'.approval_id]
           after == approvals'[resp'.approval_id]
       IN /\ Len(after.decision_history) = Len(before.decision_history) + 1
          /\ after.status = resp'.decision
          /\ IF Last(after.decision_history).comments # ""
             THEN /\ Len(after.comments) = Len(before.comments) + 1
                  /\ SubSeq(after.comments, 1, Len(before.comments)) = before.comments
                  /\ Last(after.comments).comment = Last(after.decision_history).comments
             ELSE after.comments = before.comments]_vars

C29_Witness ==
  /\ resp.op = "decision" /\ resp.code = 200
  /\ LET approval == approvals[resp.approval_id]
     IN /\ Len(approval.decision_history) = 2
        /\ approval.decision_history[1].comments # ""
        /\ approval.decision_history[2].comments = ""
        /\ Len(approval.comments) = 1
        /\ approval.status = approval.decision_history[2].new_status

\* C30: changes_requested is terminal: once the status of an approval is
\* changes_requested, no later decision on it changes the status.
C30_ChangesRequestedIsTerminal ==
  [][\A a \in DOMAIN approvals : approvals[a].status = "changes_requested" => approvals'[a].status = "changes_requested"]_vars

\* the hours between base_time and the time an isoformat string names
HoursAhead(base_time, text) ==
  LET day == 10 * (text[1] - 48) + (text[2] - 48)
      hour == 10 * (text[4] - 48) + (text[5] - 48)
  IN (24 * day + hour) - (24 * base_time.day + base_time.hour)

\* C31: the scheduled time lies in the window of the risk tier, measured from
\* the moment of scheduling: at most 24 hours ahead when the score is 80 or
\* more, between 24 and 72 hours ahead when it is 60 to 79, and at most 7
\* days ahead otherwise; it is never in the past.
C31_ScheduledTimeInWindow ==
  pipe.pc = "timed" =>
    LET ahead == HoursAhead(pipe.base_time, pipe.scheduled_time)
        risk_score == pipe.assessment.risk_score
    IN /\ Len(pipe.scheduled_time) = 5
       /\ pipe.scheduled_time[3] = 84
       /\ IF risk_score >= 80 THEN 0 <= ahead /\ ahead <= 24
          ELSE IF risk_score >= 60 THEN 24 <= ahead /\ ahead <= 72
          ELSE 0 <= ahead /\ ahead <= 7 * 24

C31_Witness ==
  /\ pipe.pc = "timed"
  /\ pipe.assessment.risk_score = 75
  /\ pipe.base_time.hour = 23
  /\ HoursAhead(pipe.base_time, pipe.scheduled_time) = 72

\* the frameworks the specification triggers for a patch on its target system
TriggeredFrameworks(patch) ==
  (IF patch.target_system.type = "database" \/ \E i \in DOMAIN patch.target_system.affected_services : patch.target_system.affected_services[i] = "user_data"
   THEN {"PCI-DSS", "HIPAA"} ELSE {})
  \cup (IF patch.target_system.environment = "production" THEN {"SOX"} ELSE {})
  \cup (IF patch.risk_score >= 70 THEN {"ISO27001"} ELSE {})

\* C32: the applicable frameworks of a scheduled patch are exactly PCI-DSS
\* and HIPAA iff the target system is a database or lists user_data among its
\* affected services, SOX iff its environment is production, ISO27001 iff the
\* risk score is 70 or more, and no framework is listed twice.
C32_ApplicableFrameworksExact ==
  pipe.pc = "tagged" =>
    /\ Len(pipe.tagged_patches) = Len(pipe.scheduled_patches)
    /\ \A n \in DOMAIN pipe.tagged_patches :
         LET frameworks == pipe.tagged_patches[n].compliance_metadata.applicable_frameworks
         IN /\ {frameworks[i] : i \in DOMAIN frameworks} = TriggeredFrameworks(pipe.scheduled_patches[n])
            /\ \A i, j \in DOMAIN frameworks : frameworks[i] = frameworks[j] => i = j

C32_Witness ==
  /\ pipe.pc = "tagged"
  /\ \E n \in DOMAIN pipe.tagged_patches :
       /\ pipe.tagged_patches[n].target_system.type = "web_server"
       /\ pipe.tagged_patches[n].target_system.environment = "staging"
       /\ pipe.tagged_patches[n].risk_score < 70
       /\ Len(pipe.tagged_patches[n].compliance_metadata.applicable_frameworks) = 2
  /\ \E n \in DOMAIN pipe.tagged_patches :
       Len(pipe.tagged_patches[n].compliance_metadata.applicable_frameworks) = 4

\* record `derived` has every field of `predecessor` with the same value, and
\* beyond them only fields of `added`
Extends(derived, predecessor, added) ==
  /\ DOMAIN predecessor \subseteq DOMAIN derived
  /\ \A f \in DOMAIN predecessor : derived[f] = predecessor[f]
  /\ (DOMAIN derived) \ (DOMAIN predecessor) \subseteq added

ScheduledFields == {"target_system", "scheduled_time", "estimated_duration", "prerequisites", "rollback_plan"}
TaggedFields == {"compliance_metadata", "audit_trail"}

\* C33: deriving records does not modify its inputs: scheduling leaves the
\* risk assessments and the inventory as they were, tagging leaves the
\* scheduled patches as they were, and every derived record has all fields
\* of its predecessor with the same values plus only the derived fields.
C33_DerivationKeepsInputs ==
  [][/\ pipe'.patch_risks = pipe.patch_risks
     /\ pipe'.systems = pipe.systems
     /\ pipe.pc = "scheduled" => pipe'.scheduled_patches = pipe.scheduled_patches
     /\ pipe'.pc = "scheduled" =>
          \A n \in DOMAIN pipe'.scheduled_patches :
            /\ \E i \in DOMAIN pipe.patch_risks : Extends(pipe'.scheduled_patches[n], pipe.patch_risks[i], ScheduledFields)
            /\ \E j \in DOMAIN pipe.systems : pipe'.scheduled_patches[n].target_system = pipe.systems[j]
     /\ pipe'.pc = "tagged" =>
          /\ Len(pipe'.tagged_patches) = Len(pipe.scheduled_patches)
          /\ \A n \in DOMAIN pipe'.tagged_patches : Extends(pipe'.tagged_patches[n], pipe.scheduled_patches[n], TaggedFields)]_vars

C33_Witness ==
  /\ pipe.pc = "tagged"
  /\ Len(pipe.patch_risks) = 2
  /\ Len(pipe.tagged_patches) >= 3
  /\ \A n \in DOMAIN pipe.tagged_patches :
       /\ pipe.tagged_patches[n].llm_reasoning = pipe.scheduled_patches[n].llm_reasoning
       /\ pipe.tagged_patches[n].target_system = pipe.scheduled_patches[n].target_system
       /\ "compliance_metadata" \in DOMAIN pipe.tagged_patches[n]
       /\ "compliance_metadata" \notin DOMAIN pipe.scheduled_patches[n]

\* the entry time t is not earlier than date_range days before now
InTrailingWindow(t, now, date_range) ==
  \/ t.day > now.day - date_range
  \/ t.day = now.day - date_range /\ t.micro >= now.micro

\* C34: get_decision_statistics(N) counts exactly the approval_decision
\* entries whose timestamp lies within the N days before the current time,
\* for every current date and every N.
C34_CountsTrailingWindow ==
  resp.op = "decision_statistics" =>
    LET call == resp.results[2]
    IN resp.results[1].total_decisions =
         Cardinality({i \in DOMAIN audit_log : /\ audit_log[i].event_type = "approval_decision"
                                               /\ InTrailingWindow(fromisoformat(audit_log[i].timestamp), call.now, call.date_range)})

\* C35: whenever the background task run_patches invokes the execution
\* backend for an approval, the stored status of that approval is approved at
\* that moment, whatever decisions were made since the execute request.
C35_BackendCalledOnlyWhileApproved ==
  [][\A k \in DOMAIN tasks :
       (tasks[k].pc = "running" /\ tasks'[k] # tasks[k] /\ Len(backend_calls') > Len(backend_calls))
       => approvals[tasks[k].approval_id].status = "approved"]_vars

\* C36: in every reachable state the status of an approval is the new_status
\* of the last record of its decision_history, or pending when the history
\* is empty.
C36_StatusIsLastDecision ==
  \A a \in DOMAIN approvals :
    approvals[a].status = (IF approvals[a].decision_history = <<>> THEN "pending" ELSE Last(approvals[a].decision_history).new_status)

C36_Witness ==
  \E a, b \in DOMAIN approvals :
    /\ Len(approvals[a].decision_history) = 2
    /\ approvals[a].decision_history[1].new_status = "approved"
    /\ approvals[a].status = "rejected"
    /\ approvals[b].decision_history = <<>>
    /\ approvals[b].status = "pending"

\* C37: a decision on approval A leaves every other approval unchanged and,
\* within A, leaves approval_id, patch_plan_id, created_at, requester, the
\* embedded patch_plan and approval_metadata unchanged; only status,
\* decision_history and comments change.
C37_DecisionTouchesOnlyItsApproval ==
  [][(nreq' = nreq + 1 /\ resp'.op = "decision") =>
       /\ DOMAIN approvals' = DOMAIN approvals
       /\ \A b \in DOMAIN approvals :
            IF b = resp'.approval_id
            THEN /\ DOMAIN approvals'[b] = DOMAIN approvals[b]
                 /\ \A f \in {"approval_id", "patch_plan_id", "created_at", "requester", "patch_plan", "approval_metadata"} :
                      approvals'[b][f] = approvals[b][f]
            ELSE approvals'[b] = approvals[b]]_vars

C37_Witness ==
  /\ resp.op = "decision" /\ resp.code = 200
  /\ Len(approvals) = 2
  /\ approvals[resp.approval_id].status = "approved"
  /\ approvals[resp.approval_id].patch_plan.audit_id = "p1"
  /\ approvals[resp.approval_id].requester # "alice"
  /\ \E b \in DOMAIN approvals : b # resp.approval_id /\ approvals[b].status = "pending" /\ approvals[b].decision_history = <<>>

\* C38: the plan handed to the executor for an approval is the plan stored
\* in that approval when it was created: no step changes the stored plan,
\* and every task carries the stored plan of its approval.
C38_ExecutedPlanIsStoredPlan ==
  [][/\ \A a \in DOMAIN approvals : a \in DOMAIN approvals' /\ approvals'[a].patch_plan = approvals[a].patch_plan
     /\ \A k \in DOMAIN tasks' :
          /\ tasks'[k].patch_plan = approvals'[tasks'[k].approval_id].patch_plan
          /\ k \in DOMAIN tasks => (tasks'[k].patch_plan = tasks[k].patch_plan /\ tasks'[k].approval_id = tasks[k].approval_id)
     /\ Len(executions') > Len(executions) =>
          \E k \in DOMAIN tasks : /\ tasks[k].pc = "started"
                                  /\ Last(executions') = Invocation("run_patches", tasks[k].approval_id, approvals[tasks[k].approval_id].patch_plan)]_vars

C38_Witness ==
  /\ Len(approvals) = 2
  /\ approvals[1].patch_plan # approvals[2].patch_plan
  /\ executions # <<>>
  /\ \E k \in DOMAIN tasks :
       /\ tasks[k].pc \in {"running", "executed"}
       /\ tasks[k].approval_id = 1
       /\ tasks[k].patch_plan = approvals[1].patch_plan

\* C39: exporting an audit report does not disturb the audit trail: once
\* export_audit_report has run, get_audit_trail still succeeds for every
\* resource and returns the entries of the resource that the log holds.
C39_TrailSurvivesExport ==
  (aud.result.op = "get_audit_trail" /\ aud.report_files # {}) =>
    /\ aud.result.status = "returned"
    /\ \A k \in DOMAIN audit_log :
         (audit_log[k].approval_id = aud.result.resource_id \/ audit_log[k].patch_plan_id = aud.result.resource_id) =>
           \E i \in DOMAIN aud.result.trail : aud.result.trail[i].log_id = audit_log[k].log_id

====
